---- MODULE Spec2Model ----
(***************************************************************************)
(* Model of the edit modal of imagespark (src/index.tsx): the undo/redo    *)
(* history of CSS filter descriptors, the slider adjustments and the       *)
(* preset filter buttons.                                                  *)
(*                                                                         *)
(* Filter descriptors are modelled as the strings the program builds, and  *)
(* the regular expressions, String.includes, startsWith, trim and join are *)
(* computed character by character, so that the flattening of the filter   *)
(* chain into a string and its recovery by pattern matching are part of    *)
(* what is checked.                                                        *)
(***************************************************************************)
EXTENDS Integers, Sequences, FiniteSets, TLC

\* ------------------------------------------------------------------------
\* Bounds of the model
\* ------------------------------------------------------------------------

\* Recording handlers are enabled while the resulting history holds at most
\* MaxHistory entries.
MaxHistory == 4

\* The slider movements that are tried: <<slider, value of the range input>>.
SliderInputs == {<<"brightness", "1.2">>, <<"contrast", "0.9">>}

\* The filter buttons that are clicked, by their position in FilterButtons:
\* the sepia button and the hue-rotate button.
ClickedButtons == {1, 3}

\* Zoom steps (wheel events and two-finger moves) are enabled until
\* MaxZoomSteps of them have run.
MaxZoomSteps == 2

\* Width and height of the box of .modal-image-container and of the layout
\* box of the modal image, in CSS pixels.  At scale 1 the image is smaller
\* than the container on both axes, at scale 5 it is larger on both.
ContainerSize == <<40, 30>>

ImageSize == <<10, 8>>

\* Where the pointer of a wheel or mouse event is, and where a single finger
\* is, as <<clientX, clientY>> measured from the corner of the container.
PointerPoints == {<<0, 0>>, <<40, 30>>}

\* naturalWidth and naturalHeight of the image that is exported.
NaturalSize == <<400, 300>>

\* Where the pointer of a mouse event on the mask canvas is.
MaskPoints == {<<20, 12>>, <<24, 16>>}

\* Generate is clicked while fewer than MaxBatches batches have been started.
MaxBatches == 2

\* The values the variations slider is moved to.
VariationsTried == {1, 2}

\* The calendar days the clock passes through, as <<year, month, day>>.
Dates == <<<<2025, 12, 31>>, <<2026, 1, 1>>>>

\* What is typed into the e-mail field of the login form.
EmailsTyped == {" Ada", "bob"}

\* The files that are chosen or dropped: a file that is no image, an image
\* file whose read fails, and an image file that is read.
FilesTried == {"notes", "broken", "photo"}

\* What the prompt field holds after an input event.
PromptsTyped == {" ", "cat "}

\* Items are added to a stored history while fewer than MaxItems of them
\* have been added since the history was last empty.
MaxItems == 22

\* Exports are started while fewer than MaxExports of them wait for their
\* image.
MaxExports == 1

\* Strokes are drawn while the mask canvas holds fewer than MaxMaskPoints
\* painted points.
MaxMaskPoints == 2

\* The two fingers of a pinch, as <<clientX of one, clientX of the other,
\* clientY of both>>: 10 apart, 20 apart, 60 apart, and on the same point.
TouchPairs == {<<15, 25, 12>>, <<10, 30, 12>>, <<0, 60, 12>>, <<20, 20, 12>>}

\* ------------------------------------------------------------------------
\* Program constants
\* ------------------------------------------------------------------------

ADJUSTMENT_FILTER_NAMES == <<"brightness", "contrast", "saturate">>

PREDEFINED_FILTER_FUNCTIONS == <<"sepia", "grayscale", "hue-rotate">>

\* The data-filter attribute of the .filter-btn buttons of the filters
\* group in document order, one button per predefined filter function.  The markup is not
\* part of the sources; the argument of each function is the customary one.
FilterButtons == <<"sepia(1)", "grayscale(1)", "hue-rotate(90deg)">>

\* The slider table of applyHistoryState: name |-> default value.
SliderDefaults == [saturate |-> "1", brightness |-> "1", contrast |-> "1"]

SliderNames == DOMAIN SliderDefaults

\* ------------------------------------------------------------------------
\* Strings
\* ------------------------------------------------------------------------

Char(s, i) == SubSeq(s, i, i)

\* The character class \w of a JavaScript regular expression.
WordChars ==
    {"a","b","c","d","e","f","g","h","i","j","k","l","m",
     "n","o","p","q","r","s","t","u","v","w","x","y","z",
     "A","B","C","D","E","F","G","H","I","J","K","L","M",
     "N","O","P","Q","R","S","T","U","V","W","X","Y","Z",
     "0","1","2","3","4","5","6","7","8","9","_"}

\* String.prototype.startsWith
StartsWith(s, p) == Len(s) >= Len(p) /\ SubSeq(s, 1, Len(p)) = p

\* String.prototype.includes
Includes(s, sub) ==
    \E i \in 1..(Len(s) - Len(sub) + 1) : SubSeq(s, i, i + Len(sub) - 1) = sub

RECURSIVE TrimLeft(_)
TrimLeft(s) ==
    IF Len(s) > 0 /\ Char(s, 1) = " " THEN TrimLeft(SubSeq(s, 2, Len(s))) ELSE s

RECURSIVE TrimRight(_)
TrimRight(s) ==
    IF Len(s) > 0 /\ Char(s, Len(s)) = " "
    THEN TrimRight(SubSeq(s, 1, Len(s) - 1)) ELSE s

\* String.prototype.trim
Trim(s) == TrimRight(TrimLeft(s))

\* Array.prototype.join(' ')
RECURSIVE Join(_)
Join(parts) ==
    IF Len(parts) = 0 THEN ""
    ELSE IF Len(parts) = 1 THEN parts[1]
    ELSE parts[1] \o " " \o Join(Tail(parts))

\* Index of the last character of the longest run of \w characters that
\* starts at i (i-1 when s[i] is not a \w character).
RECURSIVE WordRunEnd(_, _)
WordRunEnd(s, i) ==
    IF i <= Len(s) /\ Char(s, i) \in WordChars THEN WordRunEnd(s, i + 1) ELSE i - 1

\* The same for the class [^)].
RECURSIVE ArgRunEnd(_, _)
ArgRunEnd(s, i) ==
    IF i <= Len(s) /\ Char(s, i) # ")" THEN ArgRunEnd(s, i + 1) ELSE i - 1

\* /\w+\([^)]+\)/ anchored at i: the index of the closing parenthesis of
\* the match, 0 when there is no match at i.  Both quantifiers are greedy
\* and neither can succeed on a shorter run.
MatchAt(s, i) ==
    LET w == WordRunEnd(s, i)
        a == ArgRunEnd(s, w + 2)
    IN  IF w < i THEN 0
        ELSE IF w + 1 > Len(s) \/ Char(s, w + 1) # "(" THEN 0
        ELSE IF a < w + 2 \/ a + 1 > Len(s) THEN 0
        ELSE a + 1

\* s.match(/\w+\([^)]+\)/g) || []
RECURSIVE MatchAllFrom(_, _)
MatchAllFrom(s, i) ==
    IF i > Len(s) THEN <<>>
    ELSE LET e == MatchAt(s, i)
         IN  IF e = 0 THEN MatchAllFrom(s, i + 1)
             ELSE <<SubSeq(s, i, e)>> \o MatchAllFrom(s, e + 1)

MatchFilterFunctions(s) == MatchAllFrom(s, 1)

\* part.match(/(\w+)\((.+)\)/) on a part produced by MatchFilterFunctions:
\* group 1 is the leading \w run, group 2 runs to the last parenthesis.
PartName(part) == SubSeq(part, 1, WordRunEnd(part, 1))

PartValue(part) == SubSeq(part, WordRunEnd(part, 1) + 2, Len(part) - 1)

\* ------------------------------------------------------------------------
\* Map<string, string> in insertion order: a sequence of <<key, value>>
\* ------------------------------------------------------------------------

MapHas(m, k) == \E i \in 1..Len(m) : m[i][1] = k

\* Variant: set always adds an entry.
MapSet_Append(m, k, v) == Append(m, <<k, v>>)

\* Map.prototype.set: an existing key keeps its position.
MapSet(m, k, v) ==
    IF MapHas(m, k)
    THEN [i \in 1..Len(m) |-> IF m[i][1] = k THEN <<k, v>> ELSE m[i]]
    ELSE Append(m, <<k, v>>)

RECURSIVE MapFromParts(_)
MapFromParts(parts) ==
    IF Len(parts) = 0 THEN <<>>
    ELSE LET p == parts[Len(parts)]
         IN  MapSet(MapFromParts(SubSeq(parts, 1, Len(parts) - 1)),
                    PartName(p), PartValue(p))

\* Array.from(filters.entries()).map(([k, v]) => `${k}(${v})`)
MapEntries(m) == [i \in 1..Len(m) |-> m[i][1] \o "(" \o m[i][2] \o ")"]

\* ------------------------------------------------------------------------
\* The filter property of modalImageFiltered.style
\* ------------------------------------------------------------------------

\* The filter functions of CSS.
CssFilterFunctions ==
    {"blur", "brightness", "contrast", "drop-shadow", "grayscale",
     "hue-rotate", "invert", "opacity", "saturate", "sepia"}

\* Index of the first occurrence of character c in s at or after i, 0 if none.
RECURSIVE IndexOfChar(_, _, _)
IndexOfChar(s, c, i) ==
    IF i > Len(s) THEN 0
    ELSE IF Char(s, i) = c THEN i
    ELSE IndexOfChar(s, c, i + 1)

\* One function of a filter list: a known function name, an argument list
\* in parentheses.
IsCssFilterFunction(tok) ==
    LET p == IndexOfChar(tok, "(", 1)
    IN  /\ p > 1
        /\ Len(tok) > p + 1
        /\ Char(tok, Len(tok)) = ")"
        /\ SubSeq(tok, 1, p - 1) \in CssFilterFunctions

\* The value is a list of filter functions separated by single spaces.
RECURSIVE IsCssFilterList(_)
IsCssFilterList(s) ==
    LET sp == IndexOfChar(s, " ", 1)
    IN  IF sp = 0 THEN IsCssFilterFunction(s)
        ELSE /\ IsCssFilterFunction(SubSeq(s, 1, sp - 1))
             /\ IsCssFilterList(SubSeq(s, sp + 1, Len(s)))

\* Assignment to style.filter, then reading it back: the empty string
\* removes the declaration, "none" and a list of filter functions are
\* stored as written, and a value that is not a filter value is ignored,
\* the declaration keeping the value it had.
SetStyleFilter(old, value) ==
    IF value = "" THEN ""
    ELSE IF value = "none" \/ IsCssFilterList(value) THEN value
    ELSE old

\* ------------------------------------------------------------------------
\* Numbers
\* ------------------------------------------------------------------------

\* The numbers of the viewport are modelled as exact fractions <<n, d>> in
\* lowest terms with d > 0: the arithmetic of the handlers is computed
\* without the rounding of IEEE doubles.
Abs(n) == IF n < 0 THEN -n ELSE n

RECURSIVE GCD(_, _)
GCD(a, b) == IF b = 0 THEN a ELSE GCD(b, a % b)

Q(n, d) ==
    LET g == GCD(Abs(n), Abs(d))
    IN  IF d > 0 THEN <<n \div g, d \div g>> ELSE <<(-n) \div g, (-d) \div g>>

Num(n) == <<n, 1>>

QAdd(a, b) == Q(a[1] * b[2] + b[1] * a[2], a[2] * b[2])

QSub(a, b) == Q(a[1] * b[2] - b[1] * a[2], a[2] * b[2])

QMul(a, b) == Q(a[1] * b[1], a[2] * b[2])

QDiv(a, b) == Q(a[1] * b[2], a[2] * b[1])

QLe(a, b) == a[1] * b[2] <= b[1] * a[2]

QLt(a, b) == a[1] * b[2] < b[1] * a[2]

\* Math.min and Math.max
QMin(a, b) == IF QLe(a, b) THEN a ELSE b

QMax(a, b) == IF QLe(a, b) THEN b ELSE a

\* const zoomFactor = 1.1
zoomFactor == <<11, 10>>

\* ------------------------------------------------------------------------
\* State
\* ------------------------------------------------------------------------

VARIABLES
    editHistory,     \* let editHistory: string[]
    historyIndex,    \* let historyIndex (an index counted from 0)
    styleFilter,     \* modalImageFiltered.style.filter
    sliderValue,     \* value of the saturate, brightness and contrast sliders
    activeButtons,   \* the filter buttons that carry the class 'active'
    undoDisabled,    \* undoBtn.disabled
    redoDisabled,    \* redoBtn.disabled
    modalHidden,     \* editModal carries the class 'hidden'
    aiEdit,          \* "idle", or "pending" while handleAiImageEdit awaits
    lastOp,          \* history variable: the handler that ran last, its
                     \* arguments, and the cursor and the length of the
                     \* history when it started
    ref,             \* the reference linear history, run side by side
    scale,           \* let scale
    panX,            \* let panX
    panY,            \* let panY
    isPanning,       \* let isPanning
    startPanX,       \* let startPanX
    startPanY,       \* let startPanY
    initialPanX,     \* let initialPanX
    initialPanY,     \* let initialPanY
    initialPinchDistance, \* let initialPinchDistance
    transform,       \* style.transform of modalImage, modalImageFiltered and
                     \* maskCanvas: translate(x px, y px) scale(s)
    isMaskingEnabled, \* let isMaskingEnabled
    isDrawing,       \* let isDrawing
    lastX,           \* let lastX
    lastY,           \* let lastY
    maskCanvas,      \* the points of the mask canvas that are painted
    maskImage,       \* modalImageFiltered.style.maskImage
    onload,          \* the handler in modalImage.onload
    loading,         \* modalImage has a new src and its load event is due
    touches,         \* the number of fingers on the container
    zoomSteps,       \* history variable: the zoom steps that have run
    exporting,       \* the formats of the exports whose image is loading
    numberOfVariations, \* let numberOfVariations
    imageGallery,    \* the children of #image-gallery, the first one first
    placeholders,    \* const placeholders of the batch that is awaited
    requests,        \* the generation promises of that batch: "pending",
                     \* or how the promise has settled
    batches,         \* history variable: the batches that have been started
    requester,       \* history variable: the user who was logged in when the
                     \* batch that is awaited was requested
    currentUser,     \* localStorage under imageSparkUser, "" when there is none
    usageStorage,    \* localStorage under the usage key of each user
    historyStorage,  \* localStorage under the history key of each user
    clock,           \* the position in Dates of the present day
    uploadedImage,   \* let uploadedImage, "" for null
    selectedPrompt,  \* let selectedPrompt
    generateDisabled, \* generateBtn.disabled
    originalImagePreview, \* what #original-image-preview shows:
                     \* "instructions" or the uploaded image
    toolkitHidden,   \* toolkitContainer carries the class 'hidden'
    pending          \* the toolkit, scene and upscale handlers that await
                     \* their response

historyVars == <<editHistory, historyIndex, styleFilter, sliderValue, activeButtons,
                 undoDisabled, redoDisabled, lastOp, ref>>

viewVars == <<scale, panX, panY, isPanning, startPanX, startPanY, initialPanX,
              initialPanY, initialPinchDistance, transform, isMaskingEnabled,
              isDrawing, lastX, lastY, maskCanvas, maskImage>>

genVars == <<numberOfVariations, imageGallery, placeholders, requests, batches,
             requester>>

accountVars == <<currentUser, usageStorage, historyStorage, clock>>

uploadVars == <<uploadedImage, selectedPrompt, generateDisabled, originalImagePreview,
                toolkitHidden>>

appVars == <<accountVars, uploadVars, pending>>

vars == <<historyVars, modalHidden, aiEdit, viewVars, onload, loading, touches,
          zoomSteps, exporting, genVars, appVars>>

\* The module variables and DOM properties the zoom, pan and mask functions
\* work on, gathered in one record.
View ==
    [scale |-> scale, panX |-> panX, panY |-> panY, isPanning |-> isPanning,
     startPanX |-> startPanX, startPanY |-> startPanY,
     initialPanX |-> initialPanX, initialPanY |-> initialPanY,
     initialPinchDistance |-> initialPinchDistance, transform |-> transform,
     isMaskingEnabled |-> isMaskingEnabled, isDrawing |-> isDrawing,
     lastX |-> lastX, lastY |-> lastY,
     maskCanvas |-> maskCanvas, maskImage |-> maskImage]

\* The module variables and DOM properties the editing functions work on,
\* gathered in one record so that a function is a map from state to state.
Editor ==
    [editHistory   |-> editHistory,
     historyIndex  |-> historyIndex,
     styleFilter   |-> styleFilter,
     sliderValue   |-> sliderValue,
     activeButtons |-> activeButtons,
     undoDisabled  |-> undoDisabled,
     redoDisabled  |-> redoDisabled]

\* editHistory[i] for an index i counted from 0.
At(history, i) == history[i + 1]

\* ------------------------------------------------------------------------
\* Functions of the edit modal
\* ------------------------------------------------------------------------

updateUndoRedoState(e) ==
    [e EXCEPT !.undoDisabled = e.historyIndex <= 0,
              !.redoDisabled = e.historyIndex >= Len(e.editHistory) - 1]

\* The forEach of updateActiveFilterButtons over the first n buttons: the
\* button whose filter is the longest one contained in the style ("" when
\* there is none); of two equally long ones the first stays.
RECURSIVE BestMatchButton(_, _)
BestMatchButton(currentFilterStyle, n) ==
    IF n = 0 THEN ""
    ELSE LET best        == BestMatchButton(currentFilterStyle, n - 1)
             filterValue == FilterButtons[n]
         IN  IF /\ filterValue # ""
                /\ Includes(currentFilterStyle, filterValue)
                /\ Len(filterValue) > Len(best)
             THEN filterValue
             ELSE best

\* Variant: no button is marked.
updateActiveFilterButtons_Never(e) == [e EXCEPT !.activeButtons = {}]

updateActiveFilterButtons(e) ==
    LET best == BestMatchButton(e.styleFilter, Len(FilterButtons))
    IN  [e EXCEPT !.activeButtons = IF best = "" THEN {} ELSE {best}]

\* currentFilter.match(new RegExp(`${name}\\(([^)]+)\\)`)): group 1 of the
\* first match, "" when there is no match.
RECURSIVE SliderMatch(_, _, _)
SliderMatch(currentFilter, name, i) ==
    LET open == i + Len(name)
        a    == ArgRunEnd(currentFilter, open + 1)
    IN  IF open > Len(currentFilter) THEN ""
        ELSE IF /\ SubSeq(currentFilter, i, open) = name \o "("
                /\ a >= open + 1
                /\ a + 1 <= Len(currentFilter)
             THEN SubSeq(currentFilter, open + 1, a)
             ELSE SliderMatch(currentFilter, name, i + 1)

applyHistoryState(e) ==
    LET currentFilter == At(e.editHistory, e.historyIndex)
        e1 == [e EXCEPT
                 !.styleFilter = SetStyleFilter(e.styleFilter, currentFilter),
                 !.sliderValue =
                     [name \in SliderNames |->
                        LET match == SliderMatch(currentFilter, name, 1)
                        IN  IF match # "" THEN match ELSE SliderDefaults[name]]]
    IN  updateUndoRedoState(updateActiveFilterButtons(e1))

\* Variant: the cursor is set to the length of the history.
recordHistoryState_IndexIsLength(e, newFilter) ==
    LET kept == IF e.historyIndex < Len(e.editHistory) - 1
                THEN SubSeq(e.editHistory, 1, e.historyIndex + 1)
                ELSE e.editHistory
        pushed == Append(kept, newFilter)
    IN  updateUndoRedoState(
            [e EXCEPT !.editHistory = pushed,
                      !.historyIndex = Len(pushed)])

\* Variant: the history is not cut at the cursor.
recordHistoryState_NoTruncate(e, newFilter) ==
    LET pushed == Append(e.editHistory, newFilter)
    IN  updateUndoRedoState(
            [e EXCEPT !.editHistory = pushed,
                      !.historyIndex = Len(pushed) - 1])

\* Variant: the history is cut one entry short, slice(0, historyIndex).
recordHistoryState_SliceShort(e, newFilter) ==
    LET kept == IF e.historyIndex < Len(e.editHistory) - 1
                THEN SubSeq(e.editHistory, 1, e.historyIndex)
                ELSE e.editHistory
        pushed == Append(kept, newFilter)
    IN  updateUndoRedoState(
            [e EXCEPT !.editHistory = pushed,
                      !.historyIndex = Len(pushed) - 1])

recordHistoryState(e, newFilter) ==
    LET kept == IF e.historyIndex < Len(e.editHistory) - 1
                THEN SubSeq(e.editHistory, 1, e.historyIndex + 1)
                ELSE e.editHistory
        pushed == Append(kept, newFilter)
    IN  updateUndoRedoState(
            [e EXCEPT !.editHistory = pushed,
                      !.historyIndex = Len(pushed) - 1])

\* The descriptor updateFilter builds from the current style.
NewFilterStyle(currentFilterStyle, type, value) ==
    LET parsed  == IF currentFilterStyle # "" /\ currentFilterStyle # "none"
                   THEN MapFromParts(MatchFilterFunctions(currentFilterStyle))
                   ELSE <<>>
        filters == MapSet(parsed, type, value)
    IN  Join(MapEntries(filters))

updateFilter(e, type, value) ==
    LET newFilterStyle == NewFilterStyle(e.styleFilter, type, value)
    IN  recordHistoryState(
            [e EXCEPT !.styleFilter = SetStyleFilter(e.styleFilter, newFilterStyle)],
            newFilterStyle)

\* Variant: every filter function of the style is kept.
IsAdjustment_All(f) == TRUE

\* f => ADJUSTMENT_FILTER_NAMES.some(adj => f.startsWith(adj))
IsAdjustment(f) ==
    \E i \in 1..Len(ADJUSTMENT_FILTER_NAMES) : StartsWith(f, ADJUSTMENT_FILTER_NAMES[i])

\* The adjustment filters of the current style, joined.
Adjustments(currentFilterStyle) ==
    Join(SelectSeq(MatchFilterFunctions(currentFilterStyle), IsAdjustment))

\* The click handler of the filters group for the button with data-filter
\* clickedFilterValue.
filterButtonClick(e, clickedFilterValue) ==
    LET wasActive      == clickedFilterValue \in e.activeButtons
        adjustments    == Adjustments(e.styleFilter)
        newFilterStyle == IF ~wasActive
                          THEN adjustments \o " " \o clickedFilterValue
                          ELSE adjustments
        trimmed        == Trim(newFilterStyle)
        e1 == [e EXCEPT !.styleFilter = SetStyleFilter(e.styleFilter, trimmed)]
        e2 == recordHistoryState(e1, IF trimmed # "" THEN trimmed ELSE "none")
    IN  updateActiveFilterButtons(e2)

resetFiltersClick(e) ==
    LET newFilterStyle == Adjustments(e.styleFilter)
        trimmed        == Trim(newFilterStyle)
        e1 == [e EXCEPT !.styleFilter = SetStyleFilter(e.styleFilter, newFilterStyle)]
        e2 == recordHistoryState(e1, IF trimmed # "" THEN trimmed ELSE "none")
    IN  updateActiveFilterButtons(e2)

\* The input listener of a slider whose value is v.
sliderInput(e, name, v) ==
    updateFilter([e EXCEPT !.sliderValue[name] = v], name, v)

\* The three sliders are set to '1' and receive an input event each, in the
\* order saturate, brightness, contrast.
resetAdjustmentsClick(e) ==
    sliderInput(sliderInput(sliderInput(e, "saturate", "1"), "brightness", "1"),
                "contrast", "1")

\* Variant: the entries of the previous history are kept after 'none'.
resetHistory_KeepsEntries(e) ==
    applyHistoryState([e EXCEPT !.editHistory = <<"none">> \o e.editHistory,
                                !.historyIndex = 0])

\* editHistory = ['none']; historyIndex = 0; applyHistoryState();
resetHistory(e) ==
    applyHistoryState([e EXCEPT !.editHistory = <<"none">>, !.historyIndex = 0])

\* Variant: undo drops the entry it leaves.
undoClick_Pops(e) ==
    IF e.historyIndex > 0
    THEN applyHistoryState([e EXCEPT !.editHistory = SubSeq(e.editHistory, 1, e.historyIndex),
                                     !.historyIndex = e.historyIndex - 1])
    ELSE e

undoClick(e) ==
    IF e.historyIndex > 0
    THEN applyHistoryState([e EXCEPT !.historyIndex = e.historyIndex - 1])
    ELSE e

redoClick(e) ==
    IF e.historyIndex < Len(e.editHistory) - 1
    THEN applyHistoryState([e EXCEPT !.historyIndex = e.historyIndex + 1])
    ELSE e

\* ------------------------------------------------------------------------
\* Zoom and pan
\* ------------------------------------------------------------------------

\* The style sheet is not part of the sources.  The layout boxes of the
\* image and of the mask canvas are taken to start at the corner of the
\* container and to be transformed about that corner, which is what the
\* arithmetic of initializeTransform and handleWheel is written for:
\* getBoundingClientRect of a transformed element starts at the translation
\* and has the layout size times the scale of its transform.
BoundingWidth(t) == QMul(Num(ImageSize[1]), t.s)

BoundingHeight(t) == QMul(Num(ImageSize[2]), t.s)

BoundingLeft(t) == t.x

BoundingTop(t) == t.y

applyTransform(v) ==
    [v EXCEPT !.transform = [x |-> v.panX, y |-> v.panY, s |-> v.scale]]

\* Math.max(min, Math.min(pan, max)) with min = Math.min(0, container - scaled)
\* and max = Math.max(0, container - scaled).
ClampAxis(pan, container, scaled) ==
    LET min == QMin(Num(0), QSub(Num(container), scaled))
        max == QMax(Num(0), QSub(Num(container), scaled))
    IN  QMax(min, QMin(pan, max))

\* Variant: the pan is left as it is.
clampPan_Off(v) == v

\* The size of the image is read from the element, which carries the
\* transform of the last applyTransform.
clampPan(v) ==
    [v EXCEPT !.panX = ClampAxis(v.panX, ContainerSize[1], BoundingWidth(v.transform)),
              !.panY = ClampAxis(v.panY, ContainerSize[2], BoundingHeight(v.transform))]

\* The values of style.maskImage: a keyword, or url(...) of a picture, which
\* is kept as the set of the points that are painted in it.
MaskImage(value, data) == [value |-> value, data |-> data]

clearMask(v) == [v EXCEPT !.maskCanvas = {}, !.maskImage = MaskImage("none", {})]

Identity == [x |-> Num(0), y |-> Num(0), s |-> Num(1)]

\* modalImage.style.transform = 'none' before the image is measured;
\* assigning the width of the canvas also blanks it.
initializeTransform(v) ==
    LET imageRectWidth  == BoundingWidth(Identity)
        imageRectHeight == BoundingHeight(Identity)
        v1 == [v EXCEPT !.scale = Num(1),
                        !.panX = QDiv(QSub(Num(ContainerSize[1]), imageRectWidth), Num(2)),
                        !.panY = QDiv(QSub(Num(ContainerSize[2]), imageRectHeight), Num(2)),
                        !.maskCanvas = {}]
    IN  applyTransform(clearMask(v1))

\* pivot - (pivot - pan) * (scale / oldScale)
PanAbout(pivot, pan, newScale, oldScale) ==
    QSub(pivot, QMul(QSub(pivot, pan), QDiv(newScale, oldScale)))

\* Variant: the wheel multiplies the scale without an upper limit.
WheelScale_Unbounded(oldScale, deltaY) ==
    IF deltaY < 0 THEN QMul(oldScale, zoomFactor)
    ELSE QMax(Num(1), QDiv(oldScale, zoomFactor))

WheelScale(oldScale, deltaY) ==
    IF deltaY < 0 THEN QMin(Num(5), QMul(oldScale, zoomFactor))
    ELSE QMax(Num(1), QDiv(oldScale, zoomFactor))

\* mx and my are e.clientX - rect.left and e.clientY - rect.top: the
\* position of the pointer measured from the corner of the container.
handleWheel(v, mx, my, deltaY) ==
    LET oldScale == v.scale
        newScale == WheelScale(oldScale, deltaY)
        v1 == [v EXCEPT !.scale = newScale,
                        !.panX = PanAbout(Num(mx), v.panX, newScale, oldScale),
                        !.panY = PanAbout(Num(my), v.panY, newScale, oldScale)]
    IN  applyTransform(clampPan(v1))

handleMouseDown(v, clientX, clientY) ==
    [v EXCEPT !.isPanning = TRUE,
              !.startPanX = clientX, !.startPanY = clientY,
              !.initialPanX = v.panX, !.initialPanY = v.panY]

\* panX = initialPanX + (clientX - startPanX), the same for panY
PanTo(v, clientX, clientY) ==
    applyTransform(clampPan(
        [v EXCEPT !.panX = QAdd(v.initialPanX, Num(clientX - v.startPanX)),
                  !.panY = QAdd(v.initialPanY, Num(clientY - v.startPanY))]))

handleMouseMove(v, clientX, clientY) ==
    IF ~v.isPanning THEN v ELSE PanTo(v, clientX, clientY)

handleMouseUp(v) == [v EXCEPT !.isPanning = FALSE]

\* The two fingers are on one horizontal line, so that the square root of
\* getPinchDistance is exact.
getPinchDistance(pair) == Abs(pair[1] - pair[2])

\* touchstart with one finger at <<clientX, clientY>>
handleTouchStart1(v, clientX, clientY) == handleMouseDown(v, clientX, clientY)

\* touchstart with two fingers
handleTouchStart2(v, pair) ==
    [v EXCEPT !.isPanning = FALSE, !.initialPinchDistance = getPinchDistance(pair)]

\* Math.max(1, Math.min(5, scale * (newDist / initialPinchDistance)))
PinchScale(oldScale, newDist, oldDist) ==
    QMax(Num(1), QMin(Num(5), QMul(oldScale, Q(newDist, oldDist))))

\* touchmove with one finger
handleTouchMove1(v, clientX, clientY) ==
    IF v.isPanning THEN PanTo(v, clientX, clientY) ELSE v

\* touchmove with two fingers
handleTouchMove2(v, pair) ==
    IF v.initialPinchDistance > 0
    THEN LET newDist  == getPinchDistance(pair)
             oldScale == v.scale
             newScale == PinchScale(oldScale, newDist, v.initialPinchDistance)
             midX     == Q(pair[1] + pair[2], 2)
             midY     == Num(pair[3])
             v1 == [v EXCEPT !.scale = newScale,
                             !.panX = PanAbout(midX, v.panX, newScale, oldScale),
                             !.panY = PanAbout(midY, v.panY, newScale, oldScale)]
         IN  [applyTransform(clampPan(v1)) EXCEPT !.initialPinchDistance = newDist]
    ELSE v

\* touchend with n fingers left on the container
handleTouchEnd(v, n) ==
    [v EXCEPT !.initialPinchDistance = IF n < 2 THEN 0 ELSE @,
              !.isPanning = IF n < 1 THEN FALSE ELSE @]

\* ------------------------------------------------------------------------
\* Mask drawing
\* ------------------------------------------------------------------------

\* (evt.clientX - rect.left - panX) / scale, rect being the bounding rectangle
\* of the mask canvas, which carries the transform.
getMousePos(v, clientX, clientY) ==
    [x |-> QDiv(QSub(QSub(Num(clientX), BoundingLeft(v.transform)), v.panX), v.scale),
     y |-> QDiv(QSub(QSub(Num(clientY), BoundingTop(v.transform)), v.panY), v.scale)]

handleMaskMouseDown(v, clientX, clientY) ==
    IF ~v.isMaskingEnabled THEN v
    ELSE LET pos == getMousePos(v, clientX, clientY)
         IN  [v EXCEPT !.isDrawing = TRUE, !.lastX = pos.x, !.lastY = pos.y]

\* The stroke from (lastX, lastY) to the position of the pointer; of the
\* line that is painted the model keeps the two ends.
draw(v, clientX, clientY) ==
    IF ~v.isDrawing \/ ~v.isMaskingEnabled THEN v
    ELSE LET pos == getMousePos(v, clientX, clientY)
         IN  [v EXCEPT !.maskCanvas = @ \cup {<<v.lastX, v.lastY>>, <<pos.x, pos.y>>},
                       !.lastX = pos.x, !.lastY = pos.y]

\* maskCanvas.toDataURL() is the picture of the canvas at this moment.
handleMaskMouseUp(v) ==
    IF ~v.isMaskingEnabled THEN v
    ELSE [v EXCEPT !.isDrawing = FALSE, !.maskImage = MaskImage("url", v.maskCanvas)]

\* ------------------------------------------------------------------------
\* Export
\* ------------------------------------------------------------------------

\* modalImageFiltered.style.maskImage && ... !== 'none'
hasMask(v) == v.maskImage.value # "" /\ v.maskImage.value # "none"

\* modalImageFiltered.style.filter && ... !== 'none'
hasFilter(filter) == filter # "" /\ filter # "none"

\* Variant: the canvas takes the size of the image as it is displayed.
CanvasSize_Displayed(v) ==
    <<NaturalSize[1] * v.scale[1], NaturalSize[2] * v.scale[1]>>

\* canvas.width = image.naturalWidth; canvas.height = image.naturalHeight
CanvasSize(v) == NaturalSize

\* The filtered picture replaces the picture of the original as a whole:
\* there is a filter and no mask.
FilteredWhole(filter, v) == hasFilter(filter) /\ ~hasMask(v)

\* The raster that image.onload of downloadEditedImage draws: the original,
\* and over it the picture filtered with style.filter, either whole or,
\* with destination-in, at the points where the mask canvas is painted.
Raster(filter, v) ==
    [width  |-> CanvasSize(v)[1],
     height |-> CanvasSize(v)[2],
     filter |-> IF hasFilter(filter) THEN filter ELSE "none",
     whole  |-> FilteredWhole(filter, v),
     at     |-> IF hasFilter(filter) /\ hasMask(v) THEN v.maskCanvas ELSE {}]

\* Variant: the export blanks the mask.
downloadEditedImage_ClearsMask(v) == clearMask(v)

\* What downloadEditedImage and its image.onload leave of the viewport and
\* of the mask: they assign none of them.
downloadEditedImage(v) == v

\* ------------------------------------------------------------------------
\* Generation of a batch
\* ------------------------------------------------------------------------

\* const defaultValue = 3 of resetControlInputs, the initial value of
\* numberOfVariations
DefaultVariations == 3

\* An element of the gallery: slot names the placeholder that was created at
\* this place, by its batch and its index in placeholders counted from 1, shows is "spinner" for a placeholder, "error" for a
\* placeholder that updatePlaceholderWithError has marked, "image" for the
\* element that has replaced it; request is the index of the result that is
\* shown, counted from 1, or 0.
Element(slot, shows, request) == [slot |-> slot, shows |-> shows, request |-> request]

\* imageGallery.querySelectorAll('.placeholder-wrapper.error').forEach(el => el.remove())
RemoveErrors(gallery) == SelectSeq(gallery, LAMBDA e : e.shows # "error")

\* The placeholders of a batch are created and prepended one after the
\* other: the one created last is the first child.
Prepended(gallery, slots) ==
    [k \in 1..Len(slots) |-> Element(slots[Len(slots) + 1 - k], "spinner", 0)] \o gallery

\* placeholders[placeholders.length - 1 - index], index counted from 0
PlaceholderOf(slots, index) == slots[Len(slots) - index]

\* What the result of one request makes of its placeholder.
ShownFor(result) == IF result = "image" THEN "image" ELSE "error"

\* results.forEach of handleGenerateClick.  thrown is 0, or the index counted
\* from 1 of the result at which historyManager.addItemToHistory throws:
\* the loop ends there and the catch block removes the placeholders that
\* have not been replaced by an image.
ShowResults(gallery, slots, results, thrown) ==
    LET Index(slot) == CHOOSE i \in 0..(Len(results) - 1) : PlaceholderOf(slots, i) = slot
        InBatch(e)  == \E i \in 0..(Len(results) - 1) : PlaceholderOf(slots, i) = e.slot
        Reached(e)  == InBatch(e) /\ (thrown = 0 \/ Index(e.slot) + 1 < thrown)
        shown == [k \in 1..Len(gallery) |->
                    IF Reached(gallery[k])
                    THEN Element(gallery[k].slot,
                                 ShownFor(results[Index(gallery[k].slot) + 1]),
                                 Index(gallery[k].slot) + 1)
                    ELSE gallery[k]]
    IN  IF thrown = 0 THEN shown
        ELSE SelectSeq(shown, LAMBDA e : ~InBatch(e) \/ e.shows = "image")

\* ------------------------------------------------------------------------
\* Accounts, usage and stored history
\* ------------------------------------------------------------------------

\* const USAGE_LIMIT
USAGE_LIMIT == 5

\* The users that log in: what authManager.login stores for the e-mail
\* addresses that are typed.
Users == {"ada", "bob"}

\* const HISTORY_LIMIT
HISTORY_LIMIT == 20

\* String.prototype.toLowerCase, on the letters that are typed.
LowerCaseOf(c) ==
    CASE c = "A" -> "a" [] c = "B" -> "b" [] c = "D" -> "d" [] c = "O" -> "o" [] OTHER -> c

RECURSIVE toLowerCase(_)
toLowerCase(s) ==
    IF Len(s) = 0 THEN "" ELSE LowerCaseOf(Char(s, 1)) \o toLowerCase(SubSeq(s, 2, Len(s)))

\* authManager.login: the value stored under imageSparkUser
login(email) == Trim(toLowerCase(email))

\* getTodayDateKey for the date <<year, month, day>>: the decimal digits of
\* the year followed by two digits for the month and two for the day, read
\* as a number.
getTodayDateKey(date) == date[1] * 10000 + date[2] * 100 + date[3]

\* What localStorage holds under a usage key: nothing ("absent"), the JSON
\* text of a usage record ("record"), a text JSON.parse throws on
\* ("unparseable"), the text null ("null"), or the text of another value
\* that has no lastReset property, such as [] or {} ("other").
UsageText(kind, count, lastReset) == [kind |-> kind, count |-> count, lastReset |-> lastReset]

NoUsage == UsageText("absent", 0, 0)

\* data.count < USAGE_LIMIT; the count of a value that is no usage record is
\* undefined and the comparison is false.
BelowLimit(data) == data.kind = "record" /\ data.count < USAGE_LIMIT

\* Variant of getUsageData that keeps the count when the day has changed.
getUsageData_KeepsCount(user, usage, today) ==
    IF user = "" THEN [data |-> UsageText("record", USAGE_LIMIT, today), usage |-> usage]
    ELSE LET fresh == UsageText("record", 0, today)
             text  == usage[user]
         IN  CASE text.kind = "record" /\ text.lastReset < today ->
                      [data  |-> UsageText("record", text.count, today),
                       usage |-> [usage EXCEPT ![user] = UsageText("record", text.count, today)]]
               [] text.kind \in {"record", "other"} -> [data |-> text, usage |-> usage]
               [] OTHER -> [data |-> fresh, usage |-> [usage EXCEPT ![user] = fresh]]

\* Variant of getUsageData that also resets a record of the present day.
getUsageData_ResetsSameDay(user, usage, today) ==
    IF user = "" THEN [data |-> UsageText("record", USAGE_LIMIT, today), usage |-> usage]
    ELSE LET fresh == UsageText("record", 0, today)
             text  == usage[user]
         IN  CASE text.kind = "record" /\ text.lastReset <= today ->
                      [data |-> fresh, usage |-> [usage EXCEPT ![user] = fresh]]
               [] text.kind \in {"record", "other"} -> [data |-> text, usage |-> usage]
               [] OTHER -> [data |-> fresh, usage |-> [usage EXCEPT ![user] = fresh]]

\* getUsageData: the record that is returned and the storage that is left.
\* With no user nothing is read.  JSON.parse throws on an unparseable text,
\* parsed.lastReset throws on null, and both are caught; on another value
\* parsed.lastReset is undefined, undefined < today is false and the value
\* is returned as it is.
getUsageData(user, usage, today) ==
    IF user = "" THEN [data |-> UsageText("record", USAGE_LIMIT, today), usage |-> usage]
    ELSE LET fresh == UsageText("record", 0, today)
             text  == usage[user]
         IN  CASE text.kind = "record" /\ text.lastReset < today ->
                      [data |-> fresh, usage |-> [usage EXCEPT ![user] = fresh]]
               [] text.kind \in {"record", "other"} -> [data |-> text, usage |-> usage]
               [] OTHER -> [data |-> fresh, usage |-> [usage EXCEPT ![user] = fresh]]

\* usageManager.canGenerate
canGenerate(user, usage, today) ==
    user # "" /\ BelowLimit(getUsageData(user, usage, today).data)

\* Variant of recordGeneration that counts two generations while the count
\* is below the limit.
recordGeneration_Twice(user, usage, today) ==
    LET read == getUsageData(user, usage, today)
    IN  IF BelowLimit(read.data) /\ user # ""
        THEN [read.usage EXCEPT ![user] = [read.data EXCEPT !.count = @ + 2]]
        ELSE read.usage

\* usageManager.recordGeneration: the storage that is left
recordGeneration(user, usage, today) ==
    LET read == getUsageData(user, usage, today)
    IN  IF BelowLimit(read.data) /\ user # ""
        THEN [read.usage EXCEPT ![user] = [read.data EXCEPT !.count = @ + 1]]
        ELSE read.usage

\* usageManager.getRemainingGenerations; USAGE_LIMIT - undefined is NaN, and
\* NaN > 0 is false.
getRemainingGenerations(user, usage, today) ==
    LET data == getUsageData(user, usage, today).data
    IN  IF data.kind = "record" /\ USAGE_LIMIT - data.count > 0
        THEN USAGE_LIMIT - data.count ELSE 0

\* What localStorage holds under a history key: nothing ("absent"), the JSON
\* text of an array of items ("array"), a text JSON.parse throws on
\* ("unparseable"), the text null ("null"), or the text of another value
\* that is no array ("other").
HistoryText(kind, items) == [kind |-> kind, items |-> items]

NoHistory == HistoryText("absent", <<>>)

\* historyManager.getHistory: the value that is returned and the storage
\* that is left.  The catch block removes an unparseable text; null and
\* other values are returned as they are parsed.
getHistory(user, history) ==
    IF user = "" THEN [value |-> HistoryText("array", <<>>), history |-> history]
    ELSE LET text == history[user]
         IN  CASE text.kind = "absent" ->
                      [value |-> HistoryText("array", <<>>), history |-> history]
               [] text.kind = "unparseable" ->
                      [value   |-> HistoryText("array", <<>>),
                       history |-> [history EXCEPT ![user] = NoHistory]]
               [] OTHER -> [value |-> text, history |-> history]

\* history.slice(0, HISTORY_LIMIT) when history.length > HISTORY_LIMIT
Sliced(items) == IF Len(items) > HISTORY_LIMIT THEN SubSeq(items, 1, HISTORY_LIMIT) ELSE items

\* Variant of addItemToHistory that puts the item last.
addItemToHistory_Appends(user, history, item, full) ==
    LET read == getHistory(user, history)
    IN  [thrown  |-> FALSE,
         history |-> [read.history EXCEPT
                        ![user] = HistoryText("array", Sliced(Append(read.value.items, item)))]]

\* historyManager.addItemToHistory: whether it throws, and the storage that
\* is left.  unshift throws on a value that is no array; full says that
\* localStorage.setItem throws because the quota of the storage is exceeded.
addItemToHistory(user, history, item, full) ==
    LET read == getHistory(user, history)
    IN  CASE read.value.kind # "array" -> [thrown |-> TRUE, history |-> read.history]
          [] user = ""                 -> [thrown |-> FALSE, history |-> read.history]
          [] full                      -> [thrown |-> TRUE, history |-> read.history]
          [] OTHER ->
                 [thrown  |-> FALSE,
                  history |-> [read.history EXCEPT
                                 ![user] = HistoryText("array",
                                                       Sliced(<<item>> \o read.value.items))]]

\* updateUsageUI: generateBtn.disabled and the storage that is left
updateUsageUI(user, usage, today, uploaded, prompt) ==
    IF user = "" THEN [disabled |-> TRUE, usage |-> usage]
    ELSE [disabled |-> IF getRemainingGenerations(user, usage, today) <= 0 THEN TRUE
                       ELSE uploaded = "" \/ prompt = "",
          usage    |-> getUsageData(user, usage, today).usage]

RECURSIVE AddItems(_, _, _, _)
\* addItemToHistory called n times with an item, none of the calls throwing
AddItems(user, history, item, n) ==
    IF n = 0 THEN history
    ELSE AddItems(user, addItemToHistory(user, history, item, FALSE).history, item, n - 1)

\* historyManager.clearHistory
clearHistory(user, history) ==
    IF user = "" THEN history ELSE [history EXCEPT ![user] = NoHistory]

\* ------------------------------------------------------------------------
\* Initial state and handlers
\* ------------------------------------------------------------------------

\* The record kept in lastOp; pivot is the pivot of a zoom step or the
\* position of the pointer of a mouse event on the mask canvas, raster is
\* the raster that an export has handed to the browser.
Op(op, name, value) ==
    [op |-> op, name |-> name, value |-> value,
     index |-> historyIndex, length |-> Len(editHistory),
     pivot |-> <<Num(0), Num(0)>>,
     raster |-> [width |-> 0, height |-> 0, filter |-> "none", whole |-> FALSE, at |-> {}]]

PointOp(op, pivotX, pivotY) == [Op(op, "", "") EXCEPT !.pivot = <<pivotX, pivotY>>]

Downloaded(format, raster) == [Op("exportLoad", format, "") EXCEPT !.raster = raster]

\* The handlers that call recordHistoryState once, and those that start a
\* new history.
RecordingOps == {"slider", "preset", "resetFilters"}

OpeningOps == {"open", "resetAll", "aiEditSuccess"}

\* The reference linear history: a log and a cursor counted from 0.  open
\* leaves the single entry "none"; record(d) writes d at the position after
\* the cursor, which becomes the cursor and the last position; undo and
\* redo move the cursor by one and stop at the ends.
RefOpen == [log |-> <<"none">>, cursor |-> 0]

RefRecord(r, d) ==
    [log    |-> [i \in 1..(r.cursor + 2) |-> IF i <= r.cursor + 1 THEN r.log[i] ELSE d],
     cursor |-> r.cursor + 1]

RefUndo(r) == [r EXCEPT !.cursor = IF r.cursor - 1 < 0 THEN 0 ELSE r.cursor - 1]

RefRedo(r) ==
    [r EXCEPT !.cursor = IF r.cursor + 1 > Len(r.log) - 1 THEN Len(r.log) - 1
                         ELSE r.cursor + 1]

\* The step of the reference history for the handler op, h being the history
\* the handler left: a recording handler passed the last entry of h to
\* recordHistoryState, reset-adjustments passed the last three, one by one.
RefStep(op, r, h) ==
    CASE op \in OpeningOps       -> RefOpen
      [] op \in RecordingOps     -> RefRecord(r, h[Len(h)])
      [] op = "resetAdjustments" ->
             RefRecord(RefRecord(RefRecord(r, h[Len(h) - 2]), h[Len(h) - 1]), h[Len(h)])
      [] op = "undo"             -> RefUndo(r)
      [] op = "redo"             -> RefRedo(r)
      [] OTHER                   -> r

\* The handler named by op has run from the present state and left the
\* editor in state e.
Ran(op, e) ==
    /\ ref' = RefStep(op.op, ref, e.editHistory)
    /\ editHistory'   = e.editHistory
    /\ historyIndex'  = e.historyIndex
    /\ styleFilter'   = e.styleFilter
    /\ sliderValue'   = e.sliderValue
    /\ activeButtons' = e.activeButtons
    /\ undoDisabled'  = e.undoDisabled
    /\ redoDisabled'  = e.redoDisabled
    /\ lastOp' = op

\* The viewport and mask functions have run from the present state and left
\* the state v.
Viewed(v) ==
    /\ scale' = v.scale
    /\ panX' = v.panX
    /\ panY' = v.panY
    /\ isPanning' = v.isPanning
    /\ startPanX' = v.startPanX
    /\ startPanY' = v.startPanY
    /\ initialPanX' = v.initialPanX
    /\ initialPanY' = v.initialPanY
    /\ initialPinchDistance' = v.initialPinchDistance
    /\ transform' = v.transform
    /\ isMaskingEnabled' = v.isMaskingEnabled
    /\ isDrawing' = v.isDrawing
    /\ lastX' = v.lastX
    /\ lastY' = v.lastY
    /\ maskCanvas' = v.maskCanvas
    /\ maskImage' = v.maskImage

\* The module as loaded: the declarations of the state variables, no inline
\* style, the modal hidden, a blank mask canvas.  Whether the markup disables
\* the undo and redo buttons is not known from the sources.  The storage is
\* that of a user who has logged in on an earlier visit and has one
\* generation left today; initAuth has run updateUsageUI.
InitModule ==
    /\ editHistory = <<>>
    /\ historyIndex = -1
    /\ styleFilter = ""
    /\ sliderValue = SliderDefaults
    /\ activeButtons = {}
    /\ undoDisabled \in BOOLEAN
    /\ redoDisabled \in BOOLEAN
    /\ modalHidden = TRUE
    /\ aiEdit = "idle"
    /\ lastOp = Op("init", "", "")
    /\ ref = [log |-> <<>>, cursor |-> -1]
    /\ scale = Num(1)
    /\ panX = Num(0)
    /\ panY = Num(0)
    /\ isPanning = FALSE
    /\ startPanX = 0
    /\ startPanY = 0
    /\ initialPanX = Num(0)
    /\ initialPanY = Num(0)
    /\ initialPinchDistance = 0
    /\ transform = Identity
    /\ isMaskingEnabled = FALSE
    /\ isDrawing = FALSE
    /\ lastX = Num(0)
    /\ lastY = Num(0)
    /\ maskCanvas = {}
    /\ maskImage = MaskImage("", {})
    /\ onload = "none"
    /\ loading = FALSE
    /\ touches = 0
    /\ zoomSteps = 0
    /\ exporting = <<>>
    /\ numberOfVariations = DefaultVariations
    /\ imageGallery = <<>>
    /\ placeholders = <<>>
    /\ requests = <<>>
    /\ batches = 0
    /\ requester = ""
    /\ currentUser = "ada"
    /\ clock = 1
    /\ usageStorage = [u \in Users |->
                         IF u = "ada"
                         THEN UsageText("record", USAGE_LIMIT - 1, getTodayDateKey(Dates[1]))
                         ELSE NoUsage]
    /\ historyStorage = [u \in Users |-> NoHistory]
    /\ pending = {}

\* The uploader and the prompt field of the module as loaded
Init ==
    /\ InitModule
    /\ uploadedImage = ""
    /\ selectedPrompt = ""
    /\ generateDisabled = TRUE
    /\ originalImagePreview = "instructions"
    /\ toolkitHidden = TRUE

\* The module after processFile has read the file photo and the prompt cat
\* has been typed: updateUsageUI has enabled the Generate button.
InitUploaded ==
    /\ InitModule
    /\ uploadedImage = "photo"
    /\ selectedPrompt = "cat"
    /\ generateDisabled = FALSE
    /\ originalImagePreview = "photo"
    /\ toolkitHidden = FALSE

\* The controls of the modal receive events while the modal is shown.
ModalShown == ~modalHidden

\* A recording handler that leaves n more entries after the cursor.
RoomFor(n) == historyIndex + 1 + n <= MaxHistory

\* What a handler of the history leaves alone.
ViewUnchanged ==
    UNCHANGED <<viewVars, onload, loading, touches, zoomSteps, exporting, genVars, appVars>>

\* What a handler of the viewport or of the mask leaves alone.
HistoryUnchanged(op) ==
    /\ Ran(op, Editor)
    /\ UNCHANGED <<modalHidden, aiEdit, onload, loading, exporting, genVars, appVars>>

\* openEditModal switches the mask tool off, gives the two images their new
\* src and leaves initializeTransform to the load event of modalImage.
OpenEditModal ==
    /\ modalHidden
    /\ modalHidden' = FALSE
    /\ Ran(Op("open", "", ""), resetHistory(Editor))
    /\ Viewed([View EXCEPT !.isMaskingEnabled = FALSE])
    /\ onload' = "initializeTransform"
    /\ loading' = TRUE
    /\ UNCHANGED <<aiEdit, touches, zoomSteps, exporting, genVars, appVars>>

\* The load event of modalImage, handled by the function openEditModal left
\* in modalImage.onload.
ImageLoad ==
    /\ loading
    /\ onload = "initializeTransform"
    /\ loading' = FALSE
    /\ Viewed(initializeTransform(View))
    /\ Ran(Op("imageLoad", "", ""), Editor)
    /\ UNCHANGED <<modalHidden, aiEdit, onload, touches, zoomSteps, exporting, genVars, appVars>>

CloseEditModal ==
    /\ ModalShown
    /\ modalHidden' = TRUE
    /\ Ran(Op("close", "", ""), Editor)
    /\ UNCHANGED aiEdit
    /\ ViewUnchanged

SliderInput ==
    /\ ModalShown
    /\ RoomFor(1)
    /\ \E in \in SliderInputs :
          Ran(Op("slider", in[1], in[2]), sliderInput(Editor, in[1], in[2]))
    /\ UNCHANGED <<modalHidden, aiEdit>>
    /\ ViewUnchanged

FilterButtonClick ==
    /\ ModalShown
    /\ RoomFor(1)
    /\ \E i \in ClickedButtons :
          Ran(Op("preset", FilterButtons[i], ""),
              filterButtonClick(Editor, FilterButtons[i]))
    /\ UNCHANGED <<modalHidden, aiEdit>>
    /\ ViewUnchanged

ResetFiltersClick ==
    /\ ModalShown
    /\ RoomFor(1)
    /\ Ran(Op("resetFilters", "", ""), resetFiltersClick(Editor))
    /\ UNCHANGED <<modalHidden, aiEdit>>
    /\ ViewUnchanged

ResetAdjustmentsClick ==
    /\ ModalShown
    /\ RoomFor(3)
    /\ Ran(Op("resetAdjustments", "", ""), resetAdjustmentsClick(Editor))
    /\ UNCHANGED <<modalHidden, aiEdit>>
    /\ ViewUnchanged

\* The history is reset and initializeTransform is called.
ResetAllClick ==
    /\ ModalShown
    /\ Ran(Op("resetAll", "", ""), resetHistory(Editor))
    /\ Viewed(initializeTransform(View))
    /\ UNCHANGED <<modalHidden, aiEdit, onload, loading, touches, zoomSteps, exporting, genVars, appVars>>

UndoClick ==
    /\ ModalShown
    /\ Ran(Op("undo", "", ""), undoClick(Editor))
    /\ UNCHANGED <<modalHidden, aiEdit>>
    /\ ViewUnchanged

RedoClick ==
    /\ ModalShown
    /\ Ran(Op("redo", "", ""), redoClick(Editor))
    /\ UNCHANGED <<modalHidden, aiEdit>>
    /\ ViewUnchanged

\* The present day as getTodayDateKey returns it.
Today == getTodayDateKey(Dates[clock])

\* updateUsageUI has run on the storage usage.
UpdatedUsageUI(usage, uploaded, prompt) ==
    LET ui == updateUsageUI(currentUser, usage, Today, uploaded, prompt)
    IN  /\ usageStorage' = ui.usage
        /\ generateDisabled' = ui.disabled

\* handleAiImageEdit up to its await: without quota the notice is shown,
\* otherwise the generation is recorded and the request is sent.
AiEditStart ==
    /\ ModalShown
    /\ aiEdit = "idle"
    /\ IF canGenerate(currentUser, usageStorage, Today)
       THEN /\ aiEdit' = "pending"
            /\ UpdatedUsageUI(recordGeneration(currentUser, usageStorage, Today),
                              uploadedImage, selectedPrompt)
            /\ Ran(Op("aiEditStart", "", ""), Editor)
       ELSE /\ aiEdit' = aiEdit
            /\ UpdatedUsageUI(usageStorage, uploadedImage, selectedPrompt)
            /\ Ran(Op("aiEditDenied", "", ""), Editor)
    /\ UNCHANGED <<modalHidden, viewVars, onload, loading, touches, zoomSteps, exporting,
                   genVars, currentUser, historyStorage, clock, uploadedImage,
                   selectedPrompt, originalImagePreview, toolkitHidden, pending>>

\* The response carries an image: the two images get the new src, the
\* handler waits for the load event with modalImage.onload = resolve, and
\* the history is reset.
\* When addItemToHistory throws the catch block runs and nothing else is done.
AiEditSuccess ==
    /\ aiEdit = "pending"
    /\ aiEdit' = "idle"
    /\ \E full \in BOOLEAN :
          LET saved == addItemToHistory(currentUser, historyStorage, "edit", full)
          IN  /\ historyStorage' = saved.history
              /\ IF saved.thrown
                 THEN /\ Ran(Op("aiEditThrown", "", ""), Editor)
                      /\ UNCHANGED <<onload, loading>>
                 ELSE /\ Ran(Op("aiEditSuccess", "", ""), resetHistory(Editor))
                      /\ onload' = "resolve"
                      /\ loading' = FALSE
    /\ UNCHANGED <<modalHidden, viewVars, touches, zoomSteps, exporting, genVars,
                   currentUser, usageStorage, clock, uploadVars, pending>>

\* Variant of AiEditFailure in which the history is reset as it is on success.
AiEditFailure_Resets ==
    /\ aiEdit = "pending"
    /\ aiEdit' = "idle"
    /\ Ran(Op("aiEditFailure", "", ""), resetHistory(Editor))
    /\ UNCHANGED modalHidden
    /\ ViewUnchanged

\* The request is rejected or the response carries no image.
AiEditFailure ==
    /\ aiEdit = "pending"
    /\ aiEdit' = "idle"
    /\ Ran(Op("aiEditFailure", "", ""), Editor)
    /\ UNCHANGED modalHidden
    /\ ViewUnchanged

\* A wheel event on the container, the pointer at p.
Wheel ==
    /\ ModalShown
    /\ zoomSteps < MaxZoomSteps
    /\ \E p \in PointerPoints, deltaY \in {-1, 1} :
          /\ Viewed(handleWheel(View, p[1], p[2], deltaY))
          /\ HistoryUnchanged(PointOp("wheel", Num(p[1]), Num(p[2])))
    /\ zoomSteps' = zoomSteps + 1
    /\ UNCHANGED touches

MouseDown ==
    /\ ModalShown
    /\ \E p \in PointerPoints : Viewed(handleMouseDown(View, p[1], p[2]))
    /\ HistoryUnchanged(Op("mouseDown", "", ""))
    /\ UNCHANGED <<touches, zoomSteps>>

MouseMove ==
    /\ ModalShown
    /\ isPanning
    /\ \E p \in PointerPoints : Viewed(handleMouseMove(View, p[1], p[2]))
    /\ HistoryUnchanged(Op("mouseMove", "", ""))
    /\ UNCHANGED <<touches, zoomSteps>>

\* mouseup on the window, mouseleave on the container
MouseUp ==
    /\ ModalShown
    /\ isPanning
    /\ Viewed(handleMouseUp(View))
    /\ HistoryUnchanged(Op("mouseUp", "", ""))
    /\ UNCHANGED <<touches, zoomSteps>>

\* A finger is put on the container: the first one starts a pan, the second
\* one a pinch.
TouchStart ==
    /\ ModalShown
    /\ touches < 2
    /\ touches' = touches + 1
    /\ IF touches = 0
       THEN \E p \in PointerPoints : Viewed(handleTouchStart1(View, p[1], p[2]))
       ELSE \E pair \in TouchPairs : Viewed(handleTouchStart2(View, pair))
    /\ HistoryUnchanged(Op("touchStart", "", ""))
    /\ UNCHANGED zoomSteps

\* The finger that is on the container moves.
TouchPan ==
    /\ ModalShown
    /\ touches = 1
    /\ isPanning
    /\ \E p \in PointerPoints : Viewed(handleTouchMove1(View, p[1], p[2]))
    /\ HistoryUnchanged(Op("touchPan", "", ""))
    /\ UNCHANGED <<touches, zoomSteps>>

\* The two fingers that are on the container move.
TouchPinch ==
    /\ ModalShown
    /\ touches = 2
    /\ initialPinchDistance > 0
    /\ zoomSteps < MaxZoomSteps
    /\ \E pair \in TouchPairs :
          /\ Viewed(handleTouchMove2(View, pair))
          /\ HistoryUnchanged(PointOp("touchPinch", Q(pair[1] + pair[2], 2), Num(pair[3])))
    /\ zoomSteps' = zoomSteps + 1
    /\ UNCHANGED touches

\* A finger is lifted.
TouchEnd ==
    /\ ModalShown
    /\ touches > 0
    /\ touches' = touches - 1
    /\ Viewed(handleTouchEnd(View, touches - 1))
    /\ HistoryUnchanged(Op("touchEnd", "", ""))
    /\ UNCHANGED zoomSteps

\* The checkbox of the mask tool changes.
EnableMaskChange ==
    /\ ModalShown
    /\ Viewed([View EXCEPT !.isMaskingEnabled = ~isMaskingEnabled])
    /\ HistoryUnchanged(Op("enableMask", "", ""))
    /\ UNCHANGED <<touches, zoomSteps>>

\* The pointer at p is over the mask canvas as it is displayed.
OverCanvas(p) ==
    /\ QLe(BoundingLeft(transform), Num(p[1]))
    /\ QLe(Num(p[1]), QAdd(BoundingLeft(transform), BoundingWidth(transform)))
    /\ QLe(BoundingTop(transform), Num(p[2]))
    /\ QLe(Num(p[2]), QAdd(BoundingTop(transform), BoundingHeight(transform)))

MaskMouseDown ==
    /\ ModalShown
    /\ isMaskingEnabled
    /\ \E p \in MaskPoints :
          /\ OverCanvas(p)
          /\ Viewed(handleMaskMouseDown(View, p[1], p[2]))
          /\ HistoryUnchanged(PointOp("maskMouseDown", Num(p[1]), Num(p[2])))
    /\ UNCHANGED <<touches, zoomSteps>>

MaskMouseMove ==
    /\ ModalShown
    /\ isDrawing /\ isMaskingEnabled
    /\ Cardinality(maskCanvas) < MaxMaskPoints
    /\ \E p \in MaskPoints :
          /\ OverCanvas(p)
          /\ Viewed(draw(View, p[1], p[2]))
          /\ HistoryUnchanged(PointOp("draw", Num(p[1]), Num(p[2])))
    /\ UNCHANGED <<touches, zoomSteps>>

MaskMouseUp ==
    /\ ModalShown
    /\ isMaskingEnabled
    /\ Viewed(handleMaskMouseUp(View))
    /\ HistoryUnchanged(Op("maskMouseUp", "", ""))
    /\ UNCHANGED <<touches, zoomSteps>>

\* mouseleave on the mask canvas
MaskMouseLeave ==
    /\ ModalShown
    /\ isDrawing
    /\ Viewed([View EXCEPT !.isDrawing = FALSE])
    /\ HistoryUnchanged(Op("maskMouseLeave", "", ""))
    /\ UNCHANGED <<touches, zoomSteps>>

ClearMaskClick ==
    /\ ModalShown
    /\ Viewed(clearMask(View))
    /\ HistoryUnchanged(Op("clearMask", "", ""))
    /\ UNCHANGED <<touches, zoomSteps>>

\* A click on the download button (png) or on the jpeg entry of its menu:
\* downloadEditedImage up to the assignment of image.src.
ExportClick ==
    /\ ModalShown
    /\ Len(exporting) < MaxExports
    /\ \E format \in {"png", "jpeg"} :
          /\ exporting' = Append(exporting, format)
          /\ Ran(Op("exportClick", format, ""), Editor)
    /\ Viewed(downloadEditedImage(View))
    /\ UNCHANGED <<modalHidden, aiEdit, onload, loading, touches, zoomSteps, genVars, appVars>>

\* image.onload of downloadEditedImage: the raster is drawn from the filter
\* and the mask of this moment and handed to the browser as a download,
\* which lastOp keeps.
ExportLoad ==
    /\ exporting # <<>>
    /\ exporting' = Tail(exporting)
    /\ Ran(Downloaded(Head(exporting), Raster(styleFilter, View)), Editor)
    /\ Viewed(downloadEditedImage(View))
    /\ UNCHANGED <<modalHidden, aiEdit, onload, loading, touches, zoomSteps, genVars, appVars>>

\* What a handler of the generation leaves alone.
EditorUnchanged(op) ==
    /\ Ran(op, Editor)
    /\ UNCHANGED <<modalHidden, aiEdit, viewVars, onload, loading, touches, zoomSteps,
                   exporting>>

\* No batch is awaited.  The model follows one batch at a time: a click on
\* Generate while a batch is awaited is left out, and generateDisabled
\* says whether the button would take it.
Idle == requests = <<>>

\* The variations slider is moved.
VariationsInput ==
    /\ Idle
    /\ \E n \in VariationsTried : numberOfVariations' = n
    /\ EditorUnchanged(Op("variations", "", ""))
    /\ UNCHANGED <<imageGallery, placeholders, requests, batches, requester, appVars>>

\* handleGenerateClick up to await Promise.allSettled.  Without quota the
\* notice is shown; without an uploaded image or a prompt the handler
\* returns; otherwise the button is disabled, the generation is recorded,
\* the error placeholders of earlier batches are removed, the placeholders
\* are prepended and the requests are sent.
GenerateClick ==
    /\ Idle
    /\ ~generateDisabled
    /\ CASE ~canGenerate(currentUser, usageStorage, Today) ->
               /\ UpdatedUsageUI(usageStorage, uploadedImage, selectedPrompt)
               /\ EditorUnchanged(Op("generateDenied", "", ""))
               /\ UNCHANGED genVars
         [] uploadedImage = "" \/ selectedPrompt = "" ->
               /\ usageStorage' = getUsageData(currentUser, usageStorage, Today).usage
               /\ EditorUnchanged(Op("generateSkipped", "", ""))
               /\ UNCHANGED <<genVars, generateDisabled>>
         [] OTHER ->
               /\ batches < MaxBatches
               /\ batches' = batches + 1
               /\ requester' = currentUser
               /\ generateDisabled' = TRUE
               /\ usageStorage' = recordGeneration(currentUser, usageStorage, Today)
               /\ placeholders' = [i \in 1..numberOfVariations |-> <<batches + 1, i>>]
               /\ imageGallery' = Prepended(RemoveErrors(imageGallery), placeholders')
               /\ requests' = [i \in 1..numberOfVariations |-> "pending"]
               /\ EditorUnchanged(Op("generate", "", ""))
               /\ UNCHANGED numberOfVariations
    /\ UNCHANGED <<currentUser, historyStorage, clock, uploadedImage, selectedPrompt,
                   originalImagePreview, toolkitHidden, pending>>

\* One request of the batch settles: with an image, without one, or by
\* rejecting.  The requests settle in any order.
RequestSettles ==
    /\ \E i \in 1..Len(requests), result \in {"image", "noImage", "rejected"} :
          /\ requests[i] = "pending"
          /\ requests' = [requests EXCEPT ![i] = result]
          /\ EditorUnchanged(Op("settle", result, ""))
    /\ UNCHANGED <<numberOfVariations, imageGallery, placeholders, batches, requester,
                   appVars>>

\* The results that carry an image, by their index counted from 1.
Images(results) == {i \in 1..Len(results) : results[i] = "image"}

\* The results at which addItemToHistory can throw, 0 for none: with no
\* user nothing is stored; on a stored value that is no array the first
\* call throws; otherwise localStorage.setItem throws when the quota of the
\* storage is exceeded.
Throwing(user, history, results) ==
    CASE user = "" -> {0}
      [] getHistory(user, history).value.kind # "array" ->
             IF Images(results) = {} THEN {0}
             ELSE {CHOOSE i \in Images(results) : \A j \in Images(results) : i <= j}
      [] OTHER -> {0} \cup Images(results)

\* The continuation of await Promise.allSettled, with its catch and finally
\* blocks: the results are stored and shown one by one, then the uploader,
\* the toolkit and the control inputs are reset.
GenerateJoin ==
    /\ requests # <<>>
    /\ \A i \in 1..Len(requests) : requests[i] # "pending"
    /\ \E thrown \in Throwing(currentUser, historyStorage, requests) :
          /\ imageGallery' = ShowResults(imageGallery, placeholders, requests, thrown)
          /\ LET stored == AddItems(currentUser, historyStorage, "gen",
                                    Cardinality({i \in Images(requests) :
                                                   thrown = 0 \/ i < thrown}))
             IN  historyStorage' =
                     IF thrown = 0 THEN stored
                     ELSE addItemToHistory(currentUser, stored, "gen", TRUE).history
          /\ EditorUnchanged(Op("join", IF thrown = 0 THEN "" ELSE "thrown", ""))
    /\ numberOfVariations' = DefaultVariations
    /\ requests' = <<>>
    /\ uploadedImage' = ""
    /\ originalImagePreview' = "instructions"
    /\ toolkitHidden' = TRUE
    /\ selectedPrompt' = ""
    /\ UpdatedUsageUI(usageStorage, "", "")
    /\ UNCHANGED <<placeholders, batches, requester, currentUser, clock, pending>>

\* What a handler of the accounts, the uploader or the toolkit leaves alone.
AppStep(op) ==
    /\ EditorUnchanged(op)
    /\ UNCHANGED <<numberOfVariations, placeholders, requests, batches, requester>>

\* The login form is submitted with an e-mail address.
LoginSubmit ==
    /\ \E email \in EmailsTyped :
          /\ currentUser' = login(email)
          /\ LET ui == updateUsageUI(login(email), usageStorage, Today,
                                     uploadedImage, selectedPrompt)
             IN  /\ usageStorage' = ui.usage
                 /\ generateDisabled' = ui.disabled
    /\ AppStep(Op("login", "", ""))
    /\ UNCHANGED <<imageGallery, historyStorage, clock, uploadedImage, selectedPrompt,
                   originalImagePreview, toolkitHidden, pending>>

\* Variant of LogoutClick that leaves the gallery as it is.
LogoutClick_KeepsGallery ==
    /\ currentUser # ""
    /\ currentUser' = ""
    /\ generateDisabled' = TRUE
    /\ AppStep(Op("logout", "", ""))
    /\ UNCHANGED <<imageGallery, usageStorage, historyStorage, clock, uploadedImage,
                   selectedPrompt, originalImagePreview, toolkitHidden, pending>>

\* The logout button is clicked.
LogoutClick ==
    /\ currentUser # ""
    /\ currentUser' = ""
    /\ generateDisabled' = TRUE
    /\ imageGallery' = <<>>
    /\ AppStep(Op("logout", "", ""))
    /\ UNCHANGED <<usageStorage, historyStorage, clock, uploadedImage, selectedPrompt,
                   originalImagePreview, toolkitHidden, pending>>

\* Midnight passes.
NextDay ==
    /\ clock < Len(Dates)
    /\ clock' = clock + 1
    /\ AppStep(Op("nextDay", "", ""))
    /\ UNCHANGED <<imageGallery, currentUser, usageStorage, historyStorage, uploadVars,
                   pending>>

\* processFile, for a file that is chosen or dropped.  The preview that
\* applyWatermark delivers is taken as shown at once.
ProcessFile ==
    /\ \E file \in FilesTried :
          CASE file = "notes" ->
                 /\ AppStep(Op("processFile", file, "invalid"))
                 /\ UNCHANGED <<usageStorage, uploadVars>>
            [] file = "broken" ->
                 /\ uploadedImage' = ""
                 /\ generateDisabled' = TRUE
                 /\ originalImagePreview' = "instructions"
                 /\ toolkitHidden' = TRUE
                 /\ AppStep(Op("processFile", file, "invalid"))
                 /\ UNCHANGED <<usageStorage, selectedPrompt>>
            [] OTHER ->
                 /\ uploadedImage' = file
                 /\ originalImagePreview' = file
                 /\ toolkitHidden' = FALSE
                 /\ UpdatedUsageUI(usageStorage, file, selectedPrompt)
                 /\ AppStep(Op("processFile", file, ""))
                 /\ UNCHANGED selectedPrompt
    /\ UNCHANGED <<imageGallery, currentUser, historyStorage, clock, pending>>

\* An input event on the prompt field.
PromptInput ==
    /\ \E text \in PromptsTyped :
          /\ selectedPrompt' = Trim(text)
          /\ UpdatedUsageUI(usageStorage, uploadedImage, Trim(text))
    /\ AppStep(Op("promptInput", "", ""))
    /\ UNCHANGED <<imageGallery, currentUser, historyStorage, clock, uploadedImage,
                   originalImagePreview, toolkitHidden, pending>>

\* applyToolkitAIEffect up to its await, for the magic remover, the
\* blueprint and the copy-effect buttons: without quota the notice is
\* shown, otherwise the generation is recorded and the request is sent.
ToolkitEffectClick ==
    /\ uploadedImage # ""
    /\ ~toolkitHidden
    /\ "toolkit" \notin pending
    /\ IF canGenerate(currentUser, usageStorage, Today)
       THEN /\ pending' = pending \cup {"toolkit"}
            /\ UpdatedUsageUI(recordGeneration(currentUser, usageStorage, Today),
                              uploadedImage, selectedPrompt)
            /\ AppStep(Op("toolkit", "", ""))
       ELSE /\ usageStorage' = getUsageData(currentUser, usageStorage, Today).usage
            /\ AppStep(Op("toolkitDenied", "", ""))
            /\ UNCHANGED <<pending, generateDisabled>>
    /\ UNCHANGED <<imageGallery, currentUser, historyStorage, clock, uploadedImage,
                   selectedPrompt, originalImagePreview, toolkitHidden>>

\* The response of the toolkit request: with an image, which is stored and
\* becomes the uploaded image, or without one, or the request is rejected.
ToolkitEffectSettles ==
    /\ "toolkit" \in pending
    /\ pending' = pending \ {"toolkit"}
    /\ \/ \E full \in BOOLEAN :
             LET saved == addItemToHistory(currentUser, historyStorage, "effect", full)
             IN  /\ historyStorage' = saved.history
                 /\ IF saved.thrown
                    THEN /\ AppStep(Op("toolkitThrown", "", ""))
                         /\ UNCHANGED <<uploadedImage, originalImagePreview>>
                    ELSE /\ uploadedImage' = "effect"
                         /\ originalImagePreview' = "effect"
                         /\ AppStep(Op("toolkitSuccess", "", ""))
       \/ /\ AppStep(Op("toolkitFailure", "", ""))
          /\ UNCHANGED <<historyStorage, uploadedImage, originalImagePreview>>
    /\ UNCHANGED <<imageGallery, currentUser, usageStorage, clock, selectedPrompt,
                   generateDisabled, toolkitHidden>>

\* handleSceneCreation up to its await.
SceneCreationClick ==
    /\ uploadedImage # ""
    /\ "scene" \notin pending
    /\ IF canGenerate(currentUser, usageStorage, Today)
       THEN /\ pending' = pending \cup {"scene"}
            /\ UpdatedUsageUI(recordGeneration(currentUser, usageStorage, Today),
                              uploadedImage, selectedPrompt)
            /\ AppStep(Op("scene", "", ""))
       ELSE /\ usageStorage' = getUsageData(currentUser, usageStorage, Today).usage
            /\ AppStep(Op("sceneDenied", "", ""))
            /\ UNCHANGED <<pending, generateDisabled>>
    /\ UNCHANGED <<imageGallery, currentUser, historyStorage, clock, uploadedImage,
                   selectedPrompt, originalImagePreview, toolkitHidden>>

\* The response of the scene request.
SceneCreationSettles ==
    /\ "scene" \in pending
    /\ pending' = pending \ {"scene"}
    /\ \/ \E full \in BOOLEAN :
             LET saved == addItemToHistory(currentUser, historyStorage, "scene", full)
             IN  /\ historyStorage' = saved.history
                 /\ AppStep(Op(IF saved.thrown THEN "sceneThrown" ELSE "sceneSuccess", "", ""))
       \/ /\ AppStep(Op("sceneFailure", "", ""))
          /\ UNCHANGED historyStorage
    /\ UNCHANGED <<imageGallery, currentUser, usageStorage, clock, uploadVars>>

\* performUpscale up to its await, for an image of the gallery: the request
\* is sent.
UpscaleClick ==
    /\ \E k \in 1..Len(imageGallery) : imageGallery[k].shows = "image"
    /\ "upscale" \notin pending
    /\ pending' = pending \cup {"upscale"}
    /\ AppStep(Op("upscale", "", ""))
    /\ UNCHANGED <<imageGallery, accountVars, uploadVars>>

\* The response of the upscale request; the image of the gallery gets a
\* new src or the notice is shown.
UpscaleSettles ==
    /\ "upscale" \in pending
    /\ pending' = pending \ {"upscale"}
    /\ \E result \in {"image", "noImage", "rejected"} :
          AppStep(Op("upscaleSettles", result, ""))
    /\ UNCHANGED <<imageGallery, accountVars, uploadVars>>

\* The texts that are no record of their key.
Malformed == {"unparseable", "null", "other"}

\* Something other than this page (another version of the program, another
\* tab, the user) has left a text under the usage key or the history key of
\* the present user that is no record of that key.
StorageChanged ==
    /\ currentUser # ""
    /\ \E kind \in Malformed :
          \/ /\ usageStorage' = [usageStorage EXCEPT ![currentUser] = UsageText(kind, 0, 0)]
             /\ UNCHANGED historyStorage
          \/ /\ historyStorage' = [historyStorage EXCEPT
                                      ![currentUser] = HistoryText(kind, <<>>)]
             /\ UNCHANGED usageStorage
    /\ AppStep(Op("storage", "", ""))
    /\ UNCHANGED <<imageGallery, currentUser, clock, uploadVars, pending>>

\* The history button is clicked: populateHistoryModal reads the history and
\* throws on a value that is no array.
HistoryClick ==
    /\ currentUser # ""
    /\ LET read == getHistory(currentUser, historyStorage)
       IN  /\ historyStorage' = read.history
           /\ AppStep(Op("history", "", IF read.value.kind = "array" THEN "" ELSE "thrown"))
    /\ UNCHANGED <<imageGallery, currentUser, usageStorage, clock, uploadVars, pending>>

\* The Clear History button is clicked and the question is answered with
\* yes: clearHistory, then populateHistoryModal reads the history.
ClearHistoryClick ==
    /\ currentUser # ""
    /\ historyStorage' = getHistory(currentUser,
                                    clearHistory(currentUser, historyStorage)).history
    /\ AppStep(Op("clearHistory", "", ""))
    /\ UNCHANGED <<imageGallery, currentUser, usageStorage, clock, uploadVars, pending>>

RECURSIVE MaxOf(_)
\* The largest of the numbers of a sequence, 0 for an empty one
MaxOf(items) ==
    IF items = <<>> THEN 0
    ELSE LET rest == MaxOf(Tail(items))
         IN  IF Head(items) > rest THEN Head(items) ELSE rest

\* The items of the stored history of the present user, none for a text
\* that is no array
StoredItems == IF historyStorage[currentUser].kind = "array"
               THEN historyStorage[currentUser].items ELSE <<>>

\* The item that is added next: items are numbered in the order in which
\* they are added.
NextItem == MaxOf(StoredItems) + 1

\* historyManager.addItemToHistory is called with a new item; the storage
\* may be full.
AddItemToHistory ==
    /\ currentUser # ""
    /\ NextItem <= MaxItems
    /\ \E full \in BOOLEAN :
          LET added == addItemToHistory(currentUser, historyStorage, NextItem, full)
          IN  /\ historyStorage' = added.history
              /\ AppStep(Op(IF added.thrown THEN "addItemThrown" ELSE "addItem", "", ""))
    /\ UNCHANGED <<imageGallery, currentUser, usageStorage, clock, uploadVars, pending>>

\* The history of filter descriptors: the handlers that read or write
\* editHistory, historyIndex and the filter of the preview.
Next ==
    \/ OpenEditModal
    \/ CloseEditModal
    \/ SliderInput
    \/ FilterButtonClick
    \/ ResetFiltersClick
    \/ ResetAdjustmentsClick
    \/ ResetAllClick
    \/ UndoClick
    \/ RedoClick
    \/ AiEditStart
    \/ AiEditSuccess
    \/ AiEditFailure

Spec == Init /\ [][Next]_vars

\* The viewport: the handlers that read or write scale, panX and panY.
NextViewport ==
    \/ OpenEditModal
    \/ ImageLoad
    \/ CloseEditModal
    \/ ResetAllClick
    \/ Wheel
    \/ MouseDown
    \/ MouseMove
    \/ MouseUp
    \/ TouchStart
    \/ TouchPan
    \/ TouchPinch
    \/ TouchEnd

SpecViewport == Init /\ [][NextViewport]_vars

\* The mask: the handlers that read or write the mask canvas and the mask
\* of the preview, and the handlers that bring a new image into the modal.
NextMask ==
    \/ OpenEditModal
    \/ ImageLoad
    \/ CloseEditModal
    \/ ResetAllClick
    \/ AiEditStart
    \/ AiEditSuccess
    \/ AiEditFailure
    \/ EnableMaskChange
    \/ MaskMouseDown
    \/ MaskMouseMove
    \/ MaskMouseUp
    \/ MaskMouseLeave
    \/ ClearMaskClick

SpecMask == Init /\ [][NextMask]_vars

\* The export: the handlers that set the filter and the mask of the preview,
\* and the download.
NextExport ==
    \/ OpenEditModal
    \/ ImageLoad
    \/ SliderInput
    \/ FilterButtonClick
    \/ EnableMaskChange
    \/ MaskMouseDown
    \/ MaskMouseMove
    \/ MaskMouseUp
    \/ ClearMaskClick
    \/ ExportClick
    \/ ExportLoad

SpecExport == Init /\ [][NextExport]_vars

\* The generation of batches of images.
NextGenerate ==
    \/ NextDay
    \/ ProcessFile
    \/ PromptInput
    \/ VariationsInput
    \/ GenerateClick
    \/ RequestSettles
    \/ GenerateJoin

SpecGenerate == Init /\ [][NextGenerate]_vars

\* The quota: the handlers that send requests to the generation backend.
NextQuota ==
    \/ ProcessFile
    \/ PromptInput
    \/ GenerateClick
    \/ RequestSettles
    \/ GenerateJoin
    \/ OpenEditModal
    \/ AiEditStart
    \/ AiEditSuccess
    \/ AiEditFailure
    \/ ToolkitEffectClick
    \/ ToolkitEffectSettles
    \/ SceneCreationClick
    \/ SceneCreationSettles
    \/ UpscaleClick
    \/ UpscaleSettles

SpecQuota == Init /\ [][NextQuota]_vars

\* The records of the storage: the handlers that read the usage record and
\* the history, with texts under their keys that are no records.
NextStorage ==
    \/ StorageChanged
    \/ ProcessFile
    \/ PromptInput
    \/ ToolkitEffectClick
    \/ ToolkitEffectSettles
    \/ HistoryClick

SpecStorage == Init /\ [][NextStorage]_vars

\* The editor and the backend: the handlers that build up the history, the
\* preview filter and the mask, and those that receive failures.
NextFailure ==
    \/ OpenEditModal
    \/ ImageLoad
    \/ ResetFiltersClick
    \/ EnableMaskChange
    \/ MaskMouseDown
    \/ MaskMouseMove
    \/ MaskMouseUp
    \/ AiEditStart
    \/ AiEditFailure
    \/ GenerateClick
    \/ RequestSettles
    \/ GenerateJoin

SpecFailure == InitUploaded /\ [][NextFailure]_vars

\* The uploader: the handlers that read or write the uploaded image, its
\* preview and the toolkit.
NextUpload ==
    \/ ProcessFile
    \/ PromptInput
    \/ ToolkitEffectClick
    \/ ToolkitEffectSettles

SpecUpload == Init /\ [][NextUpload]_vars

\* The strokes of the mask under a viewport that the two-finger zoom has
\* changed.
NextStroke ==
    \/ OpenEditModal
    \/ ImageLoad
    \/ TouchStart
    \/ TouchPinch
    \/ TouchEnd
    \/ EnableMaskChange
    \/ MaskMouseDown
    \/ MaskMouseMove

SpecStroke == Init /\ [][NextStroke]_vars

TypeOK ==
    /\ historyIndex \in -1..(MaxHistory - 1)
    /\ Len(editHistory) <= MaxHistory
    /\ activeButtons \subseteq {FilterButtons[i] : i \in 1..Len(FilterButtons)}
    /\ modalHidden \in BOOLEAN

\* ------------------------------------------------------------------------
\* Vocabulary of the properties
\* ------------------------------------------------------------------------

\* The descriptor at the cursor.
Current == At(editHistory, historyIndex)

\* The entries of a descriptor: the name(value) tokens it concatenates.
RECURSIVE SplitSpaces(_)
SplitSpaces(s) ==
    LET sp == IndexOfChar(s, " ", 1)
    IN  IF s = "" THEN <<>>
        ELSE IF sp = 0 THEN <<s>>
        ELSE <<SubSeq(s, 1, sp - 1)>> \o SplitSpaces(SubSeq(s, sp + 1, Len(s)))

Entries(d) == IF d = "none" THEN <<>> ELSE SplitSpaces(d)

EntrySet(d) == {Entries(d)[i] : i \in 1..Len(Entries(d))}

\* The filter name of an entry: the text before its parenthesis.
EntryName(entry) == SubSeq(entry, 1, IndexOfChar(entry, "(", 1) - 1)

AdjustmentNames == {ADJUSTMENT_FILTER_NAMES[i] : i \in 1..Len(ADJUSTMENT_FILTER_NAMES)}

PresetNames == {PREDEFINED_FILTER_FUNCTIONS[i] : i \in 1..Len(PREDEFINED_FILTER_FUNCTIONS)}

AdjustmentEntries(d) == {x \in EntrySet(d) : EntryName(x) \in AdjustmentNames}

PresetEntries(d) == {x \in EntrySet(d) : EntryName(x) \in PresetNames}

\* The descriptor holds adjustment entries only, or is 'none'.
AdjustmentOnly(d) == EntrySet(d) = AdjustmentEntries(d)

\* The empty descriptor and 'none' are the same value.
Norm(d) == IF d = "" THEN "none" ELSE d

\* The step is one of the handler named op: every handler leaves its name
\* in lastOp.
StepOf(op) == lastOp'.op = op

\* A step of a handler that calls recordHistoryState once.
RecordStep == lastOp'.op \in RecordingOps

\* ------------------------------------------------------------------------
\* C1
\* ------------------------------------------------------------------------

\* C1 as stated: in every reachable state, the initial module state
\* included, 0 <= historyIndex <= editHistory.length - 1.
C1_CursorAlwaysInBounds ==
    0 <= historyIndex /\ historyIndex <= Len(editHistory) - 1

\* C1 (amended): once openEditModal has run, 0 <= historyIndex <=
\* editHistory.length - 1 in every reachable state; in the initial module
\* state, before any modal is opened, the history is empty and historyIndex
\* is -1.
C1_CursorInBoundsOnceOpened ==
    IF lastOp.op = "init"
    THEN editHistory = <<>> /\ historyIndex = -1
    ELSE 0 <= historyIndex /\ historyIndex <= Len(editHistory) - 1

\* A history of several entries with the cursor at its last entry, reached
\* by a recording handler.
C1_Witness ==
    /\ lastOp.op \in RecordingOps
    /\ Len(editHistory) >= 3
    /\ historyIndex = Len(editHistory) - 1

\* ------------------------------------------------------------------------
\* C2
\* ------------------------------------------------------------------------

\* C2: a recording handler at cursor p on the history s leaves s[0..p]
\* followed by one descriptor, with the cursor at the new last index, so the
\* entries after p are discarded; a redo that follows a recording changes
\* neither the history nor the cursor.
C2_RecordTruncates ==
    [][/\ RecordStep =>
            /\ Len(editHistory') = historyIndex + 2
            /\ SubSeq(editHistory', 1, historyIndex + 1) = SubSeq(editHistory, 1, historyIndex + 1)
            /\ historyIndex' = Len(editHistory') - 1
       /\ (StepOf("redo") /\ lastOp.op \in RecordingOps) =>
            /\ editHistory' = editHistory
            /\ historyIndex' = historyIndex]_vars

\* open, record(A), record(B), undo, record(C): the recording started at
\* cursor 1 of a history of 3 entries and left 3 entries with the cursor at 2.
C2_Witness ==
    /\ lastOp.op \in RecordingOps
    /\ lastOp.index = 1
    /\ lastOp.length = 3
    /\ Len(editHistory) = 3
    /\ historyIndex = 2
    /\ editHistory[1] = "none"

\* ------------------------------------------------------------------------
\* C3
\* ------------------------------------------------------------------------

\* C3: after open and any sequence of record, undo and redo, the descriptor
\* at the cursor is the one the reference linear history holds at its
\* cursor, and the cursor is not past the last entry written.
C3_CurrentIsLastWritten ==
    lastOp.op # "init" =>
        /\ Current = At(ref.log, ref.cursor)
        /\ historyIndex <= Len(ref.log) - 1

\* A recording after two undos, then an undo: the cursor is on an entry
\* below the rewritten one.
C3_Witness ==
    /\ lastOp.op = "undo"
    /\ lastOp.index = 2
    /\ lastOp.length = 3
    /\ historyIndex = 1
    /\ Current # "none"

\* ------------------------------------------------------------------------
\* C4
\* ------------------------------------------------------------------------

\* C4: undo at cursor 0 and redo at the last index change neither the cursor
\* nor the history; otherwise undo lowers and redo raises the cursor by one;
\* undo and redo never change the history.
C4_UndoRedoFrame ==
    [][/\ StepOf("undo") =>
            /\ editHistory' = editHistory
            /\ historyIndex' = IF historyIndex = 0 THEN 0 ELSE historyIndex - 1
       /\ StepOf("redo") =>
            /\ editHistory' = editHistory
            /\ historyIndex' = IF historyIndex = Len(editHistory) - 1
                               THEN historyIndex ELSE historyIndex + 1]_vars

\* An undo that moved the cursor off the last of several entries.
C4_Witness ==
    /\ lastOp.op = "undo"
    /\ lastOp.index = lastOp.length - 1
    /\ lastOp.length >= 3
    /\ historyIndex = lastOp.index - 1
    /\ Len(editHistory) = lastOp.length

\* ------------------------------------------------------------------------
\* C5
\* ------------------------------------------------------------------------

\* The handlers after which C5 compares the preview with the history.
EditorOps == OpeningOps \cup RecordingOps \cup {"undo", "redo"}

\* C5: after open, a slider adjustment, a preset toggle, reset-filters,
\* reset-all, undo, redo and a successful AI edit, the filter of the live
\* preview is editHistory[historyIndex], the empty descriptor and 'none'
\* being the same value.
C5_PreviewIsCurrent ==
    lastOp.op \in EditorOps => Norm(styleFilter) = Norm(Current)

\* ------------------------------------------------------------------------
\* C6
\* ------------------------------------------------------------------------

\* C6: an adjustment of the slider `name` keeps every entry of the current
\* descriptor whose name is not `name`, an active preset included: the
\* entry is in the descriptor that is recorded, name and value unchanged.
C6_AdjustmentKeepsOtherEntries ==
    [][StepOf("slider") =>
          \A x \in EntrySet(Norm(styleFilter)) :
              EntryName(x) # lastOp'.name => x \in EntrySet(Current')]_vars

\* ------------------------------------------------------------------------
\* C7
\* ------------------------------------------------------------------------

\* C7: a click on a preset button and reset-filters keep every adjustment
\* entry of the current descriptor with its value; after reset-filters the
\* descriptor holds no preset entry.
C7_PresetKeepsAdjustments ==
    [][/\ (StepOf("preset") \/ StepOf("resetFilters")) =>
              AdjustmentEntries(Current) \subseteq EntrySet(Current')
       /\ StepOf("resetFilters") => PresetEntries(Current') = {}]_vars

\* ------------------------------------------------------------------------
\* C8
\* ------------------------------------------------------------------------

\* C8: when a preset button has just been clicked on a descriptor that
\* holds adjustment entries only (or is 'none'), a second click on the same
\* button records that starting descriptor.
C8_PresetTwiceRoundTrip ==
    [][(/\ StepOf("preset")
        /\ lastOp.op = "preset"
        /\ lastOp'.name = lastOp.name
        /\ AdjustmentOnly(At(editHistory, lastOp.index)))
       => Current' = At(editHistory, lastOp.index)]_vars

\* Two clicks in a row from a descriptor of adjustments: the entry below
\* the cursor holds the preset of the button, the one at the cursor is the
\* adjustment-only descriptor two entries below again.
C8_Witness ==
    /\ lastOp.op = "preset"
    /\ historyIndex >= 2
    /\ lastOp.index = historyIndex - 1
    /\ Includes(At(editHistory, historyIndex - 1), lastOp.name)
    /\ AdjustmentOnly(Current)
    /\ Current # "none"
    /\ Current = At(editHistory, historyIndex - 2)

\* ------------------------------------------------------------------------
\* C9
\* ------------------------------------------------------------------------

\* C9: the same adjustment (same slider, same value) applied a second time
\* in a row records the descriptor the first application recorded.
C9_AdjustmentIdempotent ==
    [][(/\ StepOf("slider")
        /\ lastOp.op = "slider"
        /\ lastOp'.name = lastOp.name
        /\ lastOp'.value = lastOp.value)
       => Current' = Current]_vars

\* The same adjustment twice on a descriptor that holds another entry.
C9_Witness ==
    /\ lastOp.op = "slider"
    /\ historyIndex >= 3
    /\ lastOp.index = historyIndex - 1
    /\ Current = At(editHistory, historyIndex - 1)
    /\ Current # At(editHistory, historyIndex - 2)
    /\ Cardinality(EntrySet(Current)) >= 2

\* ------------------------------------------------------------------------
\* C10
\* ------------------------------------------------------------------------

\* No two entries of the descriptor carry the same filter name.
UniqueNames(d) ==
    \A i, j \in 1..Len(Entries(d)) :
        EntryName(Entries(d)[i]) = EntryName(Entries(d)[j]) => i = j

\* C10: every recorded descriptor holds each filter name at most once and
\* at most one preset entry.
C10_DescriptorsWellFormed ==
    \A i \in 1..Len(editHistory) :
        /\ UniqueNames(editHistory[i])
        /\ Cardinality(PresetEntries(editHistory[i])) <= 1

\* A preset switched on while another one was active, with an adjustment
\* present: the new preset has replaced the old one.
C10_Witness ==
    /\ lastOp.op = "preset"
    /\ historyIndex >= 2
    /\ lastOp.index = historyIndex - 1
    /\ PresetEntries(At(editHistory, historyIndex - 1)) = {FilterButtons[1]}
    /\ PresetEntries(Current) = {FilterButtons[3]}
    /\ AdjustmentEntries(Current) # {}

\* ------------------------------------------------------------------------
\* C11
\* ------------------------------------------------------------------------

\* C11: openEditModal, a successful AI edit and reset-all leave the history
\* ['none'] with the cursor at 0, and an undo or a redo that follows one of
\* them changes neither the history, nor the cursor, nor the preview filter.
C11_NewImageResetsHistory ==
    [][/\ lastOp'.op \in OpeningOps =>
            /\ editHistory' = <<"none">>
            /\ historyIndex' = 0
       /\ (lastOp.op \in OpeningOps /\ lastOp'.op \in {"undo", "redo"}) =>
            /\ editHistory' = editHistory
            /\ historyIndex' = historyIndex
            /\ styleFilter' = styleFilter]_vars

\* A successful AI edit that arrived on a history of several entries with
\* the cursor past the first one.
C11_Witness ==
    /\ lastOp.op = "aiEditSuccess"
    /\ lastOp.length >= 3
    /\ lastOp.index >= 1
    /\ editHistory = <<"none">>
    /\ historyIndex = 0

\* ------------------------------------------------------------------------
\* C12
\* ------------------------------------------------------------------------

\* No point of the mask canvas is painted and the preview carries no mask.
MaskBlank == maskCanvas = {} /\ maskImage.value # "url"

\* C12: when a new image has been loaded into the modal after
\* openEditModal, and when a successful AI edit has replaced the image of the
\* open modal, the mask is blank.
C12_NewImageHasBlankMask ==
    lastOp.op \in {"imageLoad", "aiEditSuccess"} => MaskBlank

\* ------------------------------------------------------------------------
\* C13
\* ------------------------------------------------------------------------

\* C13: after any sequence of wheel and pinch events, 1 <= scale <= 5.
C13_ScaleClamped ==
    QLe(Num(1), scale) /\ QLe(scale, Num(5))

\* Two zoom steps have run and the scale is 5: no product of the ratios of
\* the model is 5, the scale has been stopped at the limit.
C13_Witness ==
    /\ lastOp.op \in {"wheel", "touchPinch"}
    /\ zoomSteps = 2
    /\ scale = Num(5)
    /\ transform.s = Num(5)

\* ------------------------------------------------------------------------
\* C14
\* ------------------------------------------------------------------------

\* The pan of one axis keeps the scaled image over the container.
Overlaps(pan, container, scaled) ==
    IF QLt(Num(container), scaled)
    THEN QLe(QSub(Num(container), scaled), pan) /\ QLe(pan, Num(0))
    ELSE QLe(Num(0), pan) /\ QLe(pan, QSub(Num(container), scaled))

PanSteps == {"mouseMove", "touchPan"}

\* C14: after a pan step, by the mouse or by one finger, on each axis the
\* pan lies between container - image and 0 when the scaled image is larger
\* than the container, and between 0 and container - image when it is not.
C14_PanKeepsOverlap ==
    lastOp.op \in PanSteps =>
        /\ Overlaps(panX, ContainerSize[1], QMul(Num(ImageSize[1]), scale))
        /\ Overlaps(panY, ContainerSize[2], QMul(Num(ImageSize[2]), scale))

\* A drag that the clamp has stopped, at scale 5, the image being larger
\* than the container: the pan is container - image on both axes.
C14_Witness ==
    /\ lastOp.op \in PanSteps
    /\ scale = Num(5)
    /\ panX = Num(ContainerSize[1] - 5 * ImageSize[1])
    /\ panY = Num(ContainerSize[2] - 5 * ImageSize[2])
    /\ QLt(initialPanX, panX) \/ QLt(panX, initialPanX)

\* ------------------------------------------------------------------------
\* C15
\* ------------------------------------------------------------------------

ZoomSteps == {"wheel", "touchPinch"}

\* The point of the image that is shown at the point p of the container.
ImagePoint(p, x, y, s) == <<QDiv(QSub(p[1], x), s), QDiv(QSub(p[2], y), s)>>

\* C15: a zoom step, by the wheel or by two fingers, with the pivot p leaves
\* (p - pan) / scale as it was, on both axes.
C15_ZoomKeepsPivot ==
    [][lastOp'.op \in ZoomSteps =>
          ImagePoint(lastOp'.pivot, panX', panY', scale')
              = ImagePoint(lastOp'.pivot, panX, panY, scale)]_vars

\* ------------------------------------------------------------------------
\* C16
\* ------------------------------------------------------------------------

\* C16: the point that handleMaskMouseDown and draw record is the point of
\* the image that is displayed under the pointer, the image and the mask
\* canvas being displayed with translate(pan) scale(scale).
C16_StrokePointIsImagePoint ==
    lastOp.op \in {"maskMouseDown", "draw"} =>
        <<lastX, lastY>> = ImagePoint(lastOp.pivot, transform.x, transform.y, transform.s)

\* ------------------------------------------------------------------------
\* C17
\* ------------------------------------------------------------------------

\* C17: an export made while the filter descriptor is not 'none' hands over
\* the image filtered with the descriptor: everywhere when the preview
\* carries no mask, and with a mask exactly at the points where the mask
\* canvas is painted.
C17_ExportIsFilteredUnderMask ==
    (lastOp.op = "exportLoad" /\ Current # "none") =>
        /\ lastOp.raster.filter = Current
        /\ IF hasMask(View)
           THEN ~lastOp.raster.whole /\ lastOp.raster.at = maskCanvas
           ELSE lastOp.raster.whole

\* ------------------------------------------------------------------------
\* C18
\* ------------------------------------------------------------------------

\* The viewports that are compared: <<scale, panX, panY>>.
ViewportsTried ==
    {<<Num(1), Num(0), Num(0)>>, <<Num(2), Num(10), Num(10)>>,
     <<Num(5), Num(-10), Num(-10)>>, <<Q(11, 10), Q(-1, 2), Num(0)>>}

\* C18: the raster of an export has the natural width and height of the
\* image and is the raster of every state that differs from the exporting
\* one in scale, panX and panY only.
C18_ExportIgnoresViewport ==
    lastOp.op = "exportLoad" =>
        /\ lastOp.raster.width = NaturalSize[1]
        /\ lastOp.raster.height = NaturalSize[2]
        /\ \A vp \in ViewportsTried :
              Raster(styleFilter,
                     [View EXCEPT !.scale = vp[1], !.panX = vp[2], !.panY = vp[3]])
                  = lastOp.raster

\* An export with a filter and a painted mask.
C18_Witness ==
    /\ lastOp.op = "exportLoad"
    /\ hasFilter(styleFilter)
    /\ hasMask(View)
    /\ maskCanvas # {}
    /\ lastOp.raster.at = maskCanvas

\* ------------------------------------------------------------------------
\* C19
\* ------------------------------------------------------------------------

\* C19: the click that starts an export and the load event that finishes
\* it change none of editHistory, historyIndex, the filter of the preview,
\* the mask, scale, panX and panY.
C19_ExportChangesNothing ==
    [][lastOp'.op \in {"exportClick", "exportLoad"} =>
          UNCHANGED <<editHistory, historyIndex, styleFilter, maskCanvas, maskImage,
                      scale, panX, panY>>]_vars

\* A jpeg export finished on a history of several entries with a painted
\* mask on the preview.
C19_Witness ==
    /\ lastOp.op = "exportLoad"
    /\ lastOp.name = "jpeg"
    /\ Len(editHistory) >= 3
    /\ maskCanvas # {}
    /\ hasMask(View)

\* ------------------------------------------------------------------------
\* C20
\* ------------------------------------------------------------------------

\* The elements of the gallery that stand in a slot of the given batch and
\* show the given thing.
Showing(gallery, batch, shows) ==
    {k \in 1..Len(gallery) : gallery[k].slot[1] = batch /\ gallery[k].shows = shows}

\* The requests of a batch that rejected or returned no image.
Failed(results) == {i \in 1..Len(results) : results[i] # "image"}

\* C20: after the join of a batch of n requests of which k rejected or
\* returned no image, exactly k slots of the batch show an error placeholder
\* and n - k show a result, and every request's outcome is shown in a slot
\* of its own, whatever the other requests did and in whatever order they
\* settled.
C20_EveryRequestShownInItsSlot ==
    [][lastOp'.op = "join" =>
         LET n == Len(requests)
             k == Cardinality(Failed(requests))
         IN  /\ Cardinality(Showing(imageGallery', batches, "error")) = k
             /\ Cardinality(Showing(imageGallery', batches, "image")) = n - k
             /\ Showing(imageGallery', batches, "spinner") = {}
             /\ \A i \in 1..n :
                   Cardinality({j \in 1..Len(imageGallery') :
                                  /\ imageGallery'[j].slot[1] = batches
                                  /\ imageGallery'[j].request = i
                                  /\ imageGallery'[j].shows = ShownFor(requests[i])}) = 1
             /\ \A j1, j2 \in 1..Len(imageGallery') :
                   imageGallery'[j1].slot = imageGallery'[j2].slot => j1 = j2]_vars

\* ------------------------------------------------------------------------
\* C21
\* ------------------------------------------------------------------------

\* The steps in which a handler sends a request to the generation backend.
SendOps == {"generate", "aiEditStart", "toolkit", "scene", "upscale"}

\* The usage record of the present user as a read returns it.
UsageNow == getUsageData(currentUser, usageStorage, Today).data

\* The quota of the present user is exhausted.
QuotaExhausted ==
    /\ currentUser # ""
    /\ UsageNow.kind = "record"
    /\ UsageNow.count >= USAGE_LIMIT

\* C21: no handler (generate batch, AI edit, toolkit effect, copy effect,
\* scene creation, upscale) sends a request to the generation backend while
\* the quota of the present user is exhausted.
C21_NoRequestWhenQuotaExhausted ==
    [][lastOp'.op \in SendOps => ~QuotaExhausted]_vars

\* ------------------------------------------------------------------------
\* C22
\* ------------------------------------------------------------------------

SuccessOps == {"join", "aiEditSuccess", "aiEditThrown", "toolkitSuccess", "toolkitThrown",
               "sceneSuccess", "sceneThrown"}

\* C23: the usage count rises only in a step in which a generation has
\* succeeded; sending a request, and a request that fails or returns no
\* image, leave the count as it is.
C23_CountedOnlyAfterSuccess ==
    [][UsageNow'.count > UsageNow.count => lastOp'.op \in SuccessOps]_vars

\* ------------------------------------------------------------------------
\* C24
\* ------------------------------------------------------------------------

\* C24: a text under the usage key or the history key that is no record of
\* that key (unparseable, or parseable to another value such as null or a
\* value that is no array) is discarded by a read, which yields the default
\* (count 0 for today, the empty history), and no operation on it throws.
C24_MalformedStorageIsDiscarded ==
    currentUser # "" =>
      /\ usageStorage[currentUser].kind \in Malformed =>
            LET read == getUsageData(currentUser, usageStorage, Today)
            IN  /\ read.data = UsageText("record", 0, Today)
                /\ read.usage[currentUser] = read.data
      /\ historyStorage[currentUser].kind \in Malformed =>
            /\ getHistory(currentUser, historyStorage).value = HistoryText("array", <<>>)
            /\ ~addItemToHistory(currentUser, historyStorage, "gen", FALSE).thrown
      /\ lastOp.value # "thrown"

\* ------------------------------------------------------------------------
\* C25
\* ------------------------------------------------------------------------

\* The steps that deliver a failure of the backend: the AI edit request is
\* rejected or returns no image, a generation request settles that way, or
\* a batch with such requests is joined.
FailureDelivered ==
    \/ lastOp'.op = "aiEditFailure"
    \/ lastOp'.op = "settle" /\ lastOp'.name \in {"noImage", "rejected"}
    \/ lastOp'.op = "join" /\ Failed(requests) # {}

\* C25: when a failure of an AI edit or of a generation request is
\* delivered, editHistory, historyIndex, the filter of the preview and the
\* mask are left exactly as they were.
C25_FailureLeavesEditorAlone ==
    [][FailureDelivered =>
         UNCHANGED <<editHistory, historyIndex, styleFilter, maskCanvas, maskImage>>]_vars

\* An AI edit has failed on an editor with two history entries and an
\* active mask.
C25_Witness ==
    /\ lastOp.op = "aiEditFailure"
    /\ Len(editHistory) = 2
    /\ historyIndex = 1
    /\ maskCanvas # {}
    /\ maskImage.value = "url"

\* ------------------------------------------------------------------------
\* C26
\* ------------------------------------------------------------------------

\* C26: processFile on invalid input (a file that is no image, or an image
\* file whose read fails) leaves the uploaded image, the preview of the
\* uploader and the toolkit as they were.
C26_InvalidFileChangesNothing ==
    [][lastOp'.op = "processFile" /\ lastOp'.value = "invalid" =>
         UNCHANGED <<uploadedImage, originalImagePreview, toolkitHidden>>]_vars

\* ------------------------------------------------------------------------
\* C27
\* ------------------------------------------------------------------------

\* The stored history: the handlers that add to it, read it and clear it,
\* and the storage changing under the page.
NextHistory ==
    \/ AddItemToHistory
    \/ HistoryClick
    \/ ClearHistoryClick
    \/ StorageChanged

SpecHistory == Init /\ [][NextHistory]_vars

\* A sequence of numbers that goes down: of items numbered in the order in
\* which they were added, the later added ones come first.
MostRecentFirst(items) ==
    \A i \in 1..(Len(items) - 1) : items[i] > items[i + 1]

\* The first n elements of a sequence, all of them when there are fewer
FirstOf(items, n) == SubSeq(items, 1, IF Len(items) < n THEN Len(items) ELSE n)

\* C27: the stored history holds at most 20 items, most recent first; a call
\* of addItemToHistory puts its item first and keeps the others in their
\* order, dropping the oldest ones beyond the 20th.
C27_HistoryBoundedMostRecentFirst ==
    /\ [](\A u \in Users :
             historyStorage[u].kind = "array" =>
                 /\ Len(historyStorage[u].items) <= 20
                 /\ MostRecentFirst(historyStorage[u].items))
    /\ [][lastOp'.op = "addItem" =>
             historyStorage'[currentUser] =
                 HistoryText("array", FirstOf(<<NextItem>> \o StoredItems, 20))]_vars

\* A 21st item has been added: the first item is gone and the 20 latest are
\* stored.
C27_Witness ==
    /\ lastOp.op = "addItem"
    /\ Len(StoredItems) = 20
    /\ StoredItems[1] = 21
    /\ StoredItems[20] = 2

\* ------------------------------------------------------------------------
\* C28
\* ------------------------------------------------------------------------

\* The usage record over the days: midnight, the handlers that read the
\* record (through updateUsageUI and canGenerate) and the handler of the
\* toolkit that counts a generation, up to its request.
NextUsage ==
    \/ NextDay
    \/ LoginSubmit
    \/ LogoutClick
    \/ ProcessFile
    \/ PromptInput
    \/ ToolkitEffectClick

SpecUsage == Init /\ [][NextUsage]_vars

\* The handlers that read the usage record of the user who is logged in
\* when they are done.
ReadOps == {"login", "promptInput", "toolkit", "toolkitDenied"}

\* C28: a read of a usage record on a day later than its lastReset yields
\* and stores count 0 with lastReset today, and a handler that reads it
\* leaves that record behind (with count 1 when it counts a generation);
\* a read on the day of lastReset yields the record as it is and stores
\* nothing, and while the day does not change no step lowers the count or
\* changes lastReset.
C28_DailyReset ==
    /\ [](\A u \in Users :
             LET d    == usageStorage[u]
                 read == getUsageData(u, usageStorage, Today)
             IN  d.kind = "record" =>
                     /\ d.lastReset < Today =>
                            /\ read.data = UsageText("record", 0, Today)
                            /\ read.usage = [usageStorage EXCEPT
                                                ![u] = UsageText("record", 0, Today)]
                     /\ d.lastReset = Today =>
                            /\ read.data = d
                            /\ read.usage = usageStorage)
    /\ [][/\ currentUser' # ""
           /\ lastOp'.op \in ReadOps
           /\ usageStorage[currentUser'].kind = "record"
           /\ usageStorage[currentUser'].lastReset < Today
           => usageStorage'[currentUser'] =
                  UsageText("record", IF lastOp'.op = "toolkit" THEN 1 ELSE 0, Today)]_vars
    /\ [][\A u \in Users :
             /\ usageStorage[u].kind = "record"
             /\ usageStorage[u].lastReset = Today
             /\ clock' = clock
             => /\ usageStorage'[u].kind = "record"
                /\ usageStorage'[u].lastReset = usageStorage[u].lastReset
                /\ usageStorage'[u].count >= usageStorage[u].count]_vars

\* The record of the first day, with four generations counted, has been
\* read on the second day by a handler that counts nothing.
C28_Witness ==
    /\ clock = 2
    /\ lastOp.op = "promptInput"
    /\ currentUser = "ada"
    /\ usageStorage["ada"] = UsageText("record", 0, getTodayDateKey(Dates[2]))

\* ------------------------------------------------------------------------
\* C29
\* ------------------------------------------------------------------------

\* C29: isPanning is never true while initialPinchDistance > 0; the
\* touchstart of a second finger ends the pan, and a touchend that leaves
\* one finger on the container leaves no pan in progress, so that the
\* finger that is left moves nothing.
C29_PanAndPinchExclusive ==
    /\ [](~(isPanning /\ initialPinchDistance > 0))
    /\ [][lastOp'.op = "touchStart" /\ touches' = 2 => ~isPanning']_vars
    /\ [][lastOp'.op = "touchEnd" /\ touches' = 1 =>
             ~isPanning' /\ initialPinchDistance' = 0]_vars

\* ------------------------------------------------------------------------
\* C30
\* ------------------------------------------------------------------------

\* The drags of the mouse: the listeners of the container and of the window
\* that pan, and the listeners of the mask canvas that paint.
NextDrag ==
    \/ OpenEditModal
    \/ ImageLoad
    \/ EnableMaskChange
    \/ MouseDown
    \/ MouseMove
    \/ MouseUp
    \/ MaskMouseDown
    \/ MaskMouseMove
    \/ MaskMouseUp
    \/ MaskMouseLeave

SpecDrag == Init /\ [][NextDrag]_vars

\* C30: while isDrawing is true isPanning is false, and no pan is in
\* progress when a stroke is painted, so that the drag that paints leaves
\* panX and panY as they are.
C30_StrokeAndPanExclusive ==
    /\ [](isDrawing => ~isPanning)
    /\ [][lastOp'.op = "draw" => ~isPanning /\ UNCHANGED <<panX, panY>>]_vars

\* ------------------------------------------------------------------------
\* C31
\* ------------------------------------------------------------------------

\* The handlers that bring a new image into the uploader: processFile, Use
\* as Input and the continuation of a toolkit effect that succeeded.
UploadOps == {"processFile", "useAsInput", "toolkitSuccess"}

\* C31: the uploaded image changes only in a step of an upload, of Use as
\* Input or of a toolkit effect that succeeded; every other step, the
\* completion of a generation batch included, leaves it as it is.
C31_UploadedImageChangesOnlyOnUpload ==
    [][uploadedImage' # uploadedImage => lastOp'.op \in UploadOps]_vars

\* ------------------------------------------------------------------------
\* C32
\* ------------------------------------------------------------------------

\* C32: while a batch is awaited the Generate button is disabled, so that
\* no click can start a second batch.
C32_GenerateDisabledWhileAwaiting ==
    requests # <<>> => generateDisabled

\* ------------------------------------------------------------------------
\* C33
\* ------------------------------------------------------------------------

\* C33: the result of an AI edit that arrives after the modal was closed,
\* when the session it was requested for is gone, leaves the history and
\* the filter of the preview as they are.
C33_LateResultLeavesSessionAlone ==
    [][lastOp'.op = "aiEditSuccess" /\ modalHidden =>
         UNCHANGED <<editHistory, historyIndex, styleFilter>>]_vars

\* ------------------------------------------------------------------------
\* C34
\* ------------------------------------------------------------------------

\* The accounts while a batch is awaited: the generation of one batch for
\* the image and the prompt that are there, the login form and the logout
\* button.
NextAccount ==
    \/ GenerateClick
    \/ RequestSettles
    \/ GenerateJoin
    \/ LoginSubmit
    \/ LogoutClick

SpecAccount == InitUploaded /\ [][NextAccount]_vars

\* C34: the join of a batch writes the history record of the user who
\* requested the batch and of nobody else.
C34_HistoryOfTheRequester ==
    [][lastOp'.op = "join" =>
         \A u \in Users : historyStorage'[u] # historyStorage[u] => u = requester]_vars

\* ------------------------------------------------------------------------
\* C35
\* ------------------------------------------------------------------------

\* C35: the raster of an export is the one of the moment of its request.
\* The load event may come after any step, so this says that while an
\* export awaits its image no step changes the raster that its load event
\* would draw.
C35_ExportOfTheRequest ==
    [][exporting # <<>> /\ exporting' = exporting =>
         Raster(styleFilter', View') = Raster(styleFilter, View)]_vars

\* ------------------------------------------------------------------------
\* C36
\* ------------------------------------------------------------------------

\* The user actions that change the filter chain
ChainOps == {"slider", "preset", "resetFilters", "resetAdjustments"}

\* C36: one user action that changes the filter chain leaves one snapshot
\* more behind the cursor: the cursor has moved by one, it is on the last
\* entry, and the entry before it is the descriptor that was current, the
\* one an undo goes back to.
C36_OneSnapshotPerAction ==
    [][lastOp'.op \in ChainOps =>
         /\ historyIndex' = historyIndex + 1
         /\ Len(editHistory') = historyIndex' + 1
         /\ At(editHistory', historyIndex) = At(editHistory, historyIndex)]_vars

\* ------------------------------------------------------------------------
\* C37
\* ------------------------------------------------------------------------

\* C37: the preview carries a mask only when the mask canvas holds a stroke
\* painted since it was last blanked, and once no stroke is being drawn
\* the mask of the preview is the picture of all the strokes of the canvas.
C37_MaskFollowsStrokes ==
    /\ hasMask(View) => maskCanvas # {}
    /\ (~isDrawing /\ maskCanvas # {}) => maskImage = MaskImage("url", maskCanvas)

\* ------------------------------------------------------------------------
\* C38
\* ------------------------------------------------------------------------

\* The count over the days: midnight and the four handlers that count a
\* generation; the batch and the AI edit with the continuation of their
\* requests, the toolkit effect and the scene up to their request.
NextCount ==
    \/ NextDay
    \/ GenerateClick
    \/ RequestSettles
    \/ GenerateJoin
    \/ OpenEditModal
    \/ AiEditStart
    \/ AiEditFailure
    \/ ToolkitEffectClick
    \/ SceneCreationClick

SpecCount == InitUploaded /\ [][NextCount]_vars

\* C38: the stored count of the user who is logged in is between 0 and
\* USAGE_LIMIT, and while the day does not change no step lowers it.
C38_CountInRangeAndMonotone ==
    /\ [](usageStorage[currentUser].kind = "record" =>
             /\ 0 <= usageStorage[currentUser].count
             /\ usageStorage[currentUser].count <= 5)
    /\ [][(/\ usageStorage[currentUser].kind = "record"
           /\ usageStorage[currentUser].lastReset = Today
           /\ clock' = clock)
          => /\ usageStorage'[currentUser].kind = "record"
             /\ usageStorage'[currentUser].count >= usageStorage[currentUser].count]_vars

\* On the second day the count has gone from 0 to the limit and an AI edit
\* has been refused.
C38_Witness ==
    /\ clock = 2
    /\ lastOp.op = "aiEditDenied"
    /\ usageStorage[currentUser] = UsageText("record", 5, getTodayDateKey(Dates[2]))

\* ------------------------------------------------------------------------
\* C39
\* ------------------------------------------------------------------------

\* The page around a logout: the handlers that send requests, with the
\* continuations of their requests, and the logout button.
NextLoggedOut ==
    \/ LogoutClick
    \/ GenerateClick
    \/ RequestSettles
    \/ GenerateJoin
    \/ OpenEditModal
    \/ AiEditStart
    \/ AiEditSuccess
    \/ AiEditFailure
    \/ ToolkitEffectClick
    \/ ToolkitEffectSettles
    \/ SceneCreationClick
    \/ SceneCreationSettles
    \/ UpscaleClick
    \/ UpscaleSettles
    \/ HistoryClick
    \/ ClearHistoryClick

SpecLoggedOut == InitUploaded /\ [][NextLoggedOut]_vars

\* C39: a step that starts while nobody is logged in sends no request, and
\* while nobody is logged in no step writes a usage record or a history
\* record.
C39_NothingWhileLoggedOut ==
    [][currentUser = "" =>
         /\ lastOp'.op \notin SendOps
         /\ UNCHANGED <<usageStorage, historyStorage>>]_vars

\* The user has logged out while the requests of a batch were pending, and
\* the batch, which brought an image, has been joined with nobody logged in.
C39_Witness ==
    /\ currentUser = ""
    /\ lastOp.op = "join"
    /\ requester = "ada"
    /\ imageGallery = <<>>
    /\ \A u \in Users : historyStorage[u] = NoHistory
====
